---- MODULE Spec2Model ----
(***************************************************************************)
(* Model of the LSI Fusion MPT SCSI driver (OvmfPkg/MptScsiDxe/MptScsi.c)  *)
(* and of the PVSCSI driver binding (OvmfPkg/PvScsiDxe/PvScsi.c).          *)
(*                                                                         *)
(* Spec        the Ext SCSI Pass Thru request path of an attached          *)
(*             controller;                                                 *)
(* BindingSpec the driver binding calls (Supported, Start, Stop) and the   *)
(*             hardware bring-up they run (MptScsiInit, MptScsiReset);      *)
(* EnumSpec    the enumeration calls MptScsiGetNextTargetLun and           *)
(*             MptScsiGetNextTarget.                                       *)
(*                                                                         *)
(* Memory areas (CDB, sense area, data area, caller buffers) are observed  *)
(* at probe offsets: the first and the last byte of each area.  A copy or  *)
(* fill of n bytes touches exactly the probes below n.                     *)
(*                                                                         *)
(* 32-bit words are pairs <<high 16 bits, low 16 bits>> and 64-bit words   *)
(* are four 16-bit limbs, most significant first.                          *)
(***************************************************************************)
EXTENDS Integers, Sequences, FiniteSets, TLC

VARIABLES
  Packet,       \* the caller's EFI_EXT_SCSI_PASS_THRU_SCSI_REQUEST_PACKET
  Target,       \* *Target, the first byte of the caller's target array
  Lun,          \* the caller's Lun
  Dma,          \* Dev->Dma, the MPT_SCSI_DMA_BUFFER
  DmaPhysical,  \* Dev->DmaPhysical
  pc,           \* position of MptScsiPassThru
  Status,       \* EFI_STATUS returned by the last MptScsiPassThru
  Reply,        \* the local Reply of MptScsiPassThru
  regLog,       \* register accesses of the current call, in order
  outstanding,  \* requests posted to the device whose reply was not fetched
  calls,        \* number of MptScsiPassThru calls made so far
  posted,       \* error-reply frames posted to the reply queue and not yet
                \* used by the device
  Pci,          \* vendor and device id in the controller's PCI header
  Attributes,   \* the controller's PCI attributes
  OriginalPciAttributes,  \* Dev->OriginalPciAttributes
  Resources,    \* what the driver holds of the platform for the controller
  Regs,         \* the interrupt mask and interrupt status registers
  platformLog,  \* platform services called by the last driver binding call
  bindOp,       \* the last driver binding or enumeration call
  TargetBytes,  \* the caller's target array of the enumeration calls
  Enumerated    \* the target and LUN pairs the enumeration calls returned

passThruVars == <<Packet, Target, Dma, pc, Reply, outstanding, calls>>

bindingVars == <<Pci, Attributes, OriginalPciAttributes, Resources, Regs,
                 platformLog, bindOp, TargetBytes, Enumerated>>

vars == <<Packet, Target, Lun, Dma, DmaPhysical, pc, Status, Reply, regLog,
          outstanding, calls, posted, Pci, Attributes, OriginalPciAttributes,
          Resources, Regs, platformLog, bindOp, TargetBytes, Enumerated>>

---------------------------------------------------------------------------
\* Bounds of the model

MaxCalls == 2

MaxPolls == 1

---------------------------------------------------------------------------
\* Program constants

MPT_REG_ISTATUS == 48

MPT_REG_REQ_Q == 64

MPT_REG_REP_Q == 68

MPT_IMASK_REPLY == 8

MPT_MESSAGE_HDR_FUNCTION_SCSI_IO_REQUEST == 0

MPT_SG_ENTRY_TYPE_SIMPLE == 1

MPT_SCSI_IO_ERROR_IOCSTATUS_DEVICE_NOT_THERE == 67

CdbSize == 16

SenseSize == 255

DataSize == 8192

OffsetIoErrorReply == 0

OffsetIoRequest == 40

OffsetSense == 104

OffsetData == 359

---------------------------------------------------------------------------
\* Fixed-width words

Limb == 2^16

U32(n) == <<(n \div Limb) % Limb, n % Limb>>

MAX_UINT32 == <<Limb - 1, Limb - 1>>

Bit31(w) == w[1] >= Limb \div 2

LowBitSet(w, mask) == (w[2] \div mask) % 2 = 1

\* a 64-bit address plus a byte offset below 2^16, modulo 2^64
AddOffset(a, n) ==
  LET s4 == a[4] + n
      s3 == a[3] + (s4 \div Limb)
      s2 == a[2] + (s3 \div Limb)
      s1 == a[1] + (s2 \div Limb)
  IN  <<s1 % Limb, s2 % Limb, s3 % Limb, s4 % Limb>>

\* the conversion of a 64-bit value to UINT32
Truncate32(a) == <<a[3], a[4]>>

MPT_SCSIIO_REQUEST_CONTROL_TXDIR_NONE == <<0, 0>>

MPT_SCSIIO_REQUEST_CONTROL_TXDIR_WRITE == <<256, 0>>

MPT_SCSIIO_REQUEST_CONTROL_TXDIR_READ == <<512, 0>>

---------------------------------------------------------------------------
\* Memory

CdbProbes == {0, CdbSize - 1}

SenseProbes == {0, SenseSize - 1}

DataProbes == {0, DataSize - 1}

LunProbes == {0, 1}

CopyMem(dst, src, n) == [i \in DOMAIN dst |-> IF i < n THEN src[i] ELSE dst[i]]

ZeroMem(dst, n) == [i \in DOMAIN dst |-> IF i < n THEN 0 ELSE dst[i]]

\* a field of w bits in memory whose bytes all equal b (b is 0 or 255)
FillBits(b, w) == IF b = 0 THEN 0 ELSE 2^w - 1

FillU32(b) == <<FillBits(b, 16), FillBits(b, 16)>>

FillU64(b) == <<FillBits(b, 16), FillBits(b, 16), FillBits(b, 16), FillBits(b, 16)>>

FillRequest(b) ==
  [TargetID |-> b, Bus |-> b, ChainOffset |-> b, Function |-> b,
   CDBLength |-> b, SenseBufferLength |-> b, Reserved |-> b,
   MessageFlags |-> b, MessageContext |-> FillU32(b),
   LUN |-> [i \in LunProbes |-> b], Control |-> FillU32(b),
   CDB |-> [i \in CdbProbes |-> b], DataLength |-> FillU32(b),
   SenseBufferLowAddress |-> FillU32(b),
   Sg |-> [Length |-> FillBits(b, 24), EndOfList |-> FillBits(b, 1),
           Is64BitAddress |-> FillBits(b, 1),
           BufferContainsData |-> FillBits(b, 1),
           LocalAddress |-> FillBits(b, 1), ElementType |-> FillBits(b, 2),
           EndOfBuffer |-> FillBits(b, 1), LastElement |-> FillBits(b, 1),
           DataBufferAddress |-> FillU64(b)]]

FillErrorReply(b) ==
  [IOCStatus |-> FillBits(b, 16), TransferCount |-> FillU32(b),
   SenseCount |-> FillU32(b)]

FillDma(b) ==
  [IoErrorReply |-> FillErrorReply(b), IoRequest |-> FillRequest(b),
   Sense |-> [i \in SenseProbes |-> b], Data |-> [i \in DataProbes |-> b]]

MPT_SCSI_DMA_ADDR(base, offset) == AddOffset(base, offset)

---------------------------------------------------------------------------
\* MptScsiPopulateRequest: validate the packet, then fill Dev->Dma->IoRequest

Result(status, packet, dma) == [Status |-> status, Packet |-> packet, Dma |-> dma]

\* seeded fault: the Control values of the two directions are exchanged
PopulateDirection_SwapsControl(dma, packet) ==
  CASE packet.DataDirection = "READ" /\ packet.InTransferLength # 0 ->
         [dma EXCEPT
            !.IoRequest.DataLength = U32(packet.InTransferLength),
            !.IoRequest.Sg.Length = packet.InTransferLength % 2^24,
            !.IoRequest.Control = MPT_SCSIIO_REQUEST_CONTROL_TXDIR_WRITE]
    [] packet.DataDirection = "WRITE" /\ packet.OutTransferLength # 0 ->
         [dma EXCEPT
            !.IoRequest.DataLength = U32(packet.OutTransferLength),
            !.IoRequest.Sg.Length = packet.OutTransferLength % 2^24,
            !.IoRequest.Control = MPT_SCSIIO_REQUEST_CONTROL_TXDIR_READ,
            !.Data = CopyMem(dma.Data, packet.OutDataBuffer,
                             packet.OutTransferLength),
            !.IoRequest.Sg.BufferContainsData = 1]
    [] OTHER -> dma

\* seeded fault: the write case copies InTransferLength bytes
PopulateDirection_CopiesInLength(dma, packet) ==
  CASE packet.DataDirection = "READ" /\ packet.InTransferLength # 0 ->
         [dma EXCEPT
            !.IoRequest.DataLength = U32(packet.InTransferLength),
            !.IoRequest.Sg.Length = packet.InTransferLength % 2^24,
            !.IoRequest.Control = MPT_SCSIIO_REQUEST_CONTROL_TXDIR_READ]
    [] packet.DataDirection = "WRITE" /\ packet.OutTransferLength # 0 ->
         [dma EXCEPT
            !.IoRequest.DataLength = U32(packet.OutTransferLength),
            !.IoRequest.Sg.Length = packet.OutTransferLength % 2^24,
            !.IoRequest.Control = MPT_SCSIIO_REQUEST_CONTROL_TXDIR_WRITE,
            !.Data = CopyMem(dma.Data, packet.OutDataBuffer,
                             packet.InTransferLength),
            !.IoRequest.Sg.BufferContainsData = 1]
    [] OTHER -> dma

\* seeded fault: a read marks the buffer as containing data
PopulateDirection_MarksRead(dma, packet) ==
  CASE packet.DataDirection = "READ" /\ packet.InTransferLength # 0 ->
         [dma EXCEPT
            !.IoRequest.DataLength = U32(packet.InTransferLength),
            !.IoRequest.Sg.Length = packet.InTransferLength % 2^24,
            !.IoRequest.Control = MPT_SCSIIO_REQUEST_CONTROL_TXDIR_READ,
            !.IoRequest.Sg.BufferContainsData = 1]
    [] packet.DataDirection = "WRITE" /\ packet.OutTransferLength # 0 ->
         [dma EXCEPT
            !.IoRequest.DataLength = U32(packet.OutTransferLength),
            !.IoRequest.Sg.Length = packet.OutTransferLength % 2^24,
            !.IoRequest.Control = MPT_SCSIIO_REQUEST_CONTROL_TXDIR_WRITE,
            !.Data = CopyMem(dma.Data, packet.OutDataBuffer,
                             packet.OutTransferLength),
            !.IoRequest.Sg.BufferContainsData = 1]
    [] OTHER -> dma

\* the switch on Packet->DataDirection
PopulateDirection(dma, packet) ==
  CASE packet.DataDirection = "READ" /\ packet.InTransferLength # 0 ->
         [dma EXCEPT
            !.IoRequest.DataLength = U32(packet.InTransferLength),
            !.IoRequest.Sg.Length = packet.InTransferLength % 2^24,
            !.IoRequest.Control = MPT_SCSIIO_REQUEST_CONTROL_TXDIR_READ]
    [] packet.DataDirection = "WRITE" /\ packet.OutTransferLength # 0 ->
         [dma EXCEPT
            !.IoRequest.DataLength = U32(packet.OutTransferLength),
            !.IoRequest.Sg.Length = packet.OutTransferLength % 2^24,
            !.IoRequest.Control = MPT_SCSIIO_REQUEST_CONTROL_TXDIR_WRITE,
            !.Data = CopyMem(dma.Data, packet.OutDataBuffer,
                             packet.OutTransferLength),
            !.IoRequest.Sg.BufferContainsData = 1]
    [] OTHER -> dma

\* seeded fault: the request is filled in without the ZeroMem before it
PopulateHeader_KeepsStale(dma, base, target, lun, packet) ==
  LET zeroed == dma.IoRequest
      header == [zeroed EXCEPT
                   !.TargetID = target,
                   !.LUN[1] = lun % 256,
                   !.Function = MPT_MESSAGE_HDR_FUNCTION_SCSI_IO_REQUEST,
                   !.MessageContext = U32(1),
                   !.CDBLength = packet.CdbLength,
                   !.CDB = CopyMem(zeroed.CDB, packet.Cdb, packet.CdbLength),
                   !.SenseBufferLength = packet.SenseDataLength,
                   !.SenseBufferLowAddress =
                      Truncate32(MPT_SCSI_DMA_ADDR(base, OffsetSense)),
                   !.Sg.EndOfList = 1,
                   !.Sg.EndOfBuffer = 1,
                   !.Sg.LastElement = 1,
                   !.Sg.ElementType = MPT_SG_ENTRY_TYPE_SIMPLE,
                   !.Sg.DataBufferAddress = MPT_SCSI_DMA_ADDR(base, OffsetData),
                   !.Control = MPT_SCSIIO_REQUEST_CONTROL_TXDIR_NONE]
  IN  [dma EXCEPT !.IoRequest = header,
                  !.Sense = ZeroMem(dma.Sense, packet.SenseDataLength)]

\* the assignments between the ZeroMem of the request and the switch
PopulateHeader(dma, base, target, lun, packet) ==
  LET zeroed == FillRequest(0)
      header == [zeroed EXCEPT
                   !.TargetID = target,
                   !.LUN[1] = lun % 256,
                   !.Function = MPT_MESSAGE_HDR_FUNCTION_SCSI_IO_REQUEST,
                   !.MessageContext = U32(1),
                   !.CDBLength = packet.CdbLength,
                   !.CDB = CopyMem(zeroed.CDB, packet.Cdb, packet.CdbLength),
                   !.SenseBufferLength = packet.SenseDataLength,
                   !.SenseBufferLowAddress =
                      Truncate32(MPT_SCSI_DMA_ADDR(base, OffsetSense)),
                   !.Sg.EndOfList = 1,
                   !.Sg.EndOfBuffer = 1,
                   !.Sg.LastElement = 1,
                   !.Sg.ElementType = MPT_SG_ENTRY_TYPE_SIMPLE,
                   !.Sg.DataBufferAddress = MPT_SCSI_DMA_ADDR(base, OffsetData),
                   !.Control = MPT_SCSIIO_REQUEST_CONTROL_TXDIR_NONE]
  IN  [dma EXCEPT !.IoRequest = header,
                  !.Sense = ZeroMem(dma.Sense, packet.SenseDataLength)]

\* seeded fault: the request is zeroed before the packet is validated
PopulateRequest_ZeroesFirst(dma, base, target, lun, packet) ==
  LET zeroed == [dma EXCEPT !.IoRequest = FillRequest(0)] IN
  IF packet.DataDirection = "BIDIRECTIONAL" \/ packet.CdbLength > CdbSize
  THEN Result("EFI_UNSUPPORTED", packet, zeroed)
  ELSE IF target > 0 \/ lun > 0
  THEN Result("EFI_INVALID_PARAMETER", packet, zeroed)
  ELSE IF packet.InTransferLength > DataSize
  THEN Result("EFI_BAD_BUFFER_SIZE",
              [packet EXCEPT !.InTransferLength = DataSize], zeroed)
  ELSE IF packet.OutTransferLength > DataSize
  THEN Result("EFI_BAD_BUFFER_SIZE",
              [packet EXCEPT !.OutTransferLength = DataSize], zeroed)
  ELSE Result("EFI_SUCCESS", packet,
              PopulateDirection(
                PopulateHeader(dma, base, target, lun, packet), packet))

\* seeded fault: an oversize OutTransferLength is reported but not clamped
PopulateRequest_NoOutClamp(dma, base, target, lun, packet) ==
  IF packet.DataDirection = "BIDIRECTIONAL" \/ packet.CdbLength > CdbSize
  THEN Result("EFI_UNSUPPORTED", packet, dma)
  ELSE IF target > 0 \/ lun > 0
  THEN Result("EFI_INVALID_PARAMETER", packet, dma)
  ELSE IF packet.InTransferLength > DataSize
  THEN Result("EFI_BAD_BUFFER_SIZE",
              [packet EXCEPT !.InTransferLength = DataSize], dma)
  ELSE IF packet.OutTransferLength > DataSize
  THEN Result("EFI_BAD_BUFFER_SIZE", packet, dma)
  ELSE Result("EFI_SUCCESS", packet,
              PopulateDirection(
                PopulateHeader(dma, base, target, lun, packet), packet))

\* seeded fault: the sense area is cleared before the packet is validated
PopulateRequest_ClearsSenseFirst(dma, base, target, lun, packet) ==
  LET cleared == [dma EXCEPT
                    !.Sense = ZeroMem(dma.Sense, packet.SenseDataLength)] IN
  IF packet.DataDirection = "BIDIRECTIONAL" \/ packet.CdbLength > CdbSize
  THEN Result("EFI_UNSUPPORTED", packet, cleared)
  ELSE IF target > 0 \/ lun > 0
  THEN Result("EFI_INVALID_PARAMETER", packet, cleared)
  ELSE IF packet.InTransferLength > DataSize
  THEN Result("EFI_BAD_BUFFER_SIZE",
              [packet EXCEPT !.InTransferLength = DataSize], cleared)
  ELSE IF packet.OutTransferLength > DataSize
  THEN Result("EFI_BAD_BUFFER_SIZE",
              [packet EXCEPT !.OutTransferLength = DataSize], cleared)
  ELSE Result("EFI_SUCCESS", packet,
              PopulateDirection(
                PopulateHeader(dma, base, target, lun, packet), packet))

\* seeded fault: the target and LUN are validated before the direction
PopulateRequest_TargetFirst(dma, base, target, lun, packet) ==
  IF target > 0 \/ lun > 0
  THEN Result("EFI_INVALID_PARAMETER", packet, dma)
  ELSE IF packet.DataDirection = "BIDIRECTIONAL" \/ packet.CdbLength > CdbSize
  THEN Result("EFI_UNSUPPORTED", packet, dma)
  ELSE IF packet.InTransferLength > DataSize
  THEN Result("EFI_BAD_BUFFER_SIZE",
              [packet EXCEPT !.InTransferLength = DataSize], dma)
  ELSE IF packet.OutTransferLength > DataSize
  THEN Result("EFI_BAD_BUFFER_SIZE",
              [packet EXCEPT !.OutTransferLength = DataSize], dma)
  ELSE Result("EFI_SUCCESS", packet,
              PopulateDirection(
                PopulateHeader(dma, base, target, lun, packet), packet))

MptScsiPopulateRequest(dma, base, target, lun, packet) ==
  IF packet.DataDirection = "BIDIRECTIONAL" \/ packet.CdbLength > CdbSize
  THEN Result("EFI_UNSUPPORTED", packet, dma)
  ELSE IF target > 0 \/ lun > 0
  THEN Result("EFI_INVALID_PARAMETER", packet, dma)
  ELSE IF packet.InTransferLength > DataSize
  THEN Result("EFI_BAD_BUFFER_SIZE",
              [packet EXCEPT !.InTransferLength = DataSize], dma)
  ELSE IF packet.OutTransferLength > DataSize
  THEN Result("EFI_BAD_BUFFER_SIZE",
              [packet EXCEPT !.OutTransferLength = DataSize], dma)
  ELSE Result("EFI_SUCCESS", packet,
              PopulateDirection(
                PopulateHeader(dma, base, target, lun, packet), packet))

---------------------------------------------------------------------------
\* Register accesses: Out32 and In32 return the transport's EFI_STATUS

RegWrite(reg, val, ok) == [op |-> "W", reg |-> reg, val |-> val, ok |-> ok]

RegRead(reg, val, ok) == [op |-> "R", reg |-> reg, val |-> val, ok |-> ok]

\* seeded fault: a failed submission is reported like a fatal error
SendRequest_TaskAborted(packet, ok) ==
  IF ~ok
  THEN [Status |-> "EFI_DEVICE_ERROR",
        Packet |-> [packet EXCEPT
                      !.InTransferLength = 0,
                      !.OutTransferLength = 0,
                      !.HostAdapterStatus = "HOST_ADAPTER_OTHER",
                      !.TargetStatus = "TARGET_TASK_ABORTED",
                      !.SenseDataLength = 0]]
  ELSE [Status |-> "EFI_SUCCESS", Packet |-> packet]

\* MptScsiSendRequest, given whether Out32 of the frame's address succeeded
MptScsiSendRequest(packet, ok) ==
  IF ~ok
  THEN [Status |-> "EFI_DEVICE_ERROR",
        Packet |-> [packet EXCEPT
                      !.InTransferLength = 0,
                      !.OutTransferLength = 0,
                      !.HostAdapterStatus = "HOST_ADAPTER_OTHER",
                      !.TargetStatus = "TARGET_GOOD",
                      !.SenseDataLength = 0]]
  ELSE [Status |-> "EFI_SUCCESS", Packet |-> packet]

\* seeded fault: the adapter status is overwritten whatever it was
Fatal_ForcesOther(packet) ==
  [packet EXCEPT
     !.InTransferLength = 0,
     !.OutTransferLength = 0,
     !.HostAdapterStatus = "HOST_ADAPTER_OTHER",
     !.TargetStatus = "TARGET_TASK_ABORTED",
     !.SenseDataLength = 0]

\* the Fatal label of MptScsiPassThru
Fatal(packet) ==
  [packet EXCEPT
     !.InTransferLength = 0,
     !.OutTransferLength = 0,
     !.HostAdapterStatus =
        IF packet.HostAdapterStatus = "HOST_ADAPTER_OK"
        THEN "HOST_ADAPTER_OTHER" ELSE packet.HostAdapterStatus,
     !.TargetStatus = "TARGET_TASK_ABORTED",
     !.SenseDataLength = 0]

\* seeded fault: the data area is copied for a write instead of a read
HandleReplyCopy_WrongDirection(dma, packet) ==
  LET p1 == [packet EXCEPT
               !.SenseData = CopyMem(packet.SenseData, dma.Sense,
                                     packet.SenseDataLength)]
  IN  IF packet.DataDirection = "WRITE"
      THEN [p1 EXCEPT
              !.InDataBuffer = CopyMem(packet.InDataBuffer, dma.Data,
                                       packet.InTransferLength)]
      ELSE p1

\* the two CopyMem at the top of MptScsiHandleReply
HandleReplyCopy(dma, packet) ==
  LET p1 == [packet EXCEPT
               !.SenseData = CopyMem(packet.SenseData, dma.Sense,
                                     packet.SenseDataLength)]
  IN  IF packet.DataDirection = "READ"
      THEN [p1 EXCEPT
              !.InDataBuffer = CopyMem(packet.InDataBuffer, dma.Data,
                                       packet.InTransferLength)]
      ELSE p1

\* seeded fault: a token without bit 31 is taken for the expected reply
ReplyKind_AcceptsAnyContext(dma, reply) ==
  IF Bit31(reply) THEN "error" ELSE "good"

\* which branch of MptScsiHandleReply the reply token takes
ReplyKind(dma, reply) ==
  IF reply = dma.IoRequest.MessageContext THEN "good"
  ELSE IF Bit31(reply) THEN "error"
  ELSE "unexpected"

\* seeded fault: the device-not-there case is missing
ErrorAdapterStatus_AlwaysOther(dma) == "HOST_ADAPTER_OTHER"

\* the switch on Dev->Dma->IoErrorReply.Data.IOCStatus
ErrorAdapterStatus(dma) ==
  IF dma.IoErrorReply.IOCStatus = MPT_SCSI_IO_ERROR_IOCSTATUS_DEVICE_NOT_THERE
  THEN "HOST_ADAPTER_SELECTION_TIMEOUT"
  ELSE "HOST_ADAPTER_OTHER"

\* seeded fault: the buffers are copied back only for the expected reply
HandleReply_CopiesWhenGood(dma, reply, packet, ok) ==
  LET kind == ReplyKind(dma, reply)
  IN  CASE kind = "good" ->
             [Status |-> "EFI_SUCCESS",
              Packet |-> [HandleReplyCopy(dma, packet) EXCEPT
                            !.HostAdapterStatus = "HOST_ADAPTER_OK",
                            !.TargetStatus = "TARGET_GOOD"]]
        [] kind = "error" ->
             [Status |-> IF ok THEN "EFI_SUCCESS" ELSE "EFI_DEVICE_ERROR",
              Packet |-> [packet EXCEPT
                            !.HostAdapterStatus = ErrorAdapterStatus(dma)]]
        [] OTHER ->
             [Status |-> "EFI_DEVICE_ERROR", Packet |-> packet]

\* seeded fault: an error frame's counts are taken as the lengths transferred
HandleReply_AdjustsLengths(dma, reply, packet, ok) ==
  LET copied == HandleReplyCopy(dma, packet)
      kind == ReplyKind(dma, reply)
  IN  CASE kind = "good" ->
             [Status |-> "EFI_SUCCESS",
              Packet |-> [copied EXCEPT
                            !.HostAdapterStatus = "HOST_ADAPTER_OK",
                            !.TargetStatus = "TARGET_GOOD"]]
        [] kind = "error" ->
             [Status |-> IF ok THEN "EFI_SUCCESS" ELSE "EFI_DEVICE_ERROR",
              Packet |-> [copied EXCEPT
                            !.HostAdapterStatus = ErrorAdapterStatus(dma),
                            !.InTransferLength =
                               dma.IoErrorReply.TransferCount[2],
                            !.SenseDataLength =
                               dma.IoErrorReply.SenseCount[2] % 256]]
        [] OTHER ->
             [Status |-> "EFI_DEVICE_ERROR", Packet |-> copied]

\* MptScsiHandleReply, given whether the re-post of the error frame succeeded
MptScsiHandleReply(dma, reply, packet, ok) ==
  LET copied == HandleReplyCopy(dma, packet)
      kind == ReplyKind(dma, reply)
  IN  CASE kind = "good" ->
             [Status |-> "EFI_SUCCESS",
              Packet |-> [copied EXCEPT
                            !.HostAdapterStatus = "HOST_ADAPTER_OK",
                            !.TargetStatus = "TARGET_GOOD"]]
        [] kind = "error" ->
             [Status |-> IF ok THEN "EFI_SUCCESS" ELSE "EFI_DEVICE_ERROR",
              Packet |-> [copied EXCEPT
                            !.HostAdapterStatus = ErrorAdapterStatus(dma)]]
        [] OTHER ->
             [Status |-> "EFI_DEVICE_ERROR", Packet |-> copied]


---------------------------------------------------------------------------
\* The caller's requests

Lengths == {0, 1, DataSize, DataSize + 1}

CdbLengths == {6, CdbSize, CdbSize + 1}

SenseLengths == {0, 1, SenseSize}

TargetLuns == {<<0, 0>>, <<1, 0>>, <<0, 1>>}

\* contents of the caller's buffers: every byte differs from what the
\* driver and the device write
CallerCdb == [i \in CdbProbes |-> 18 + i]

CallerOut == [i \in DataProbes |-> 1 + (i % 251)]

CallerIn == [i \in DataProbes |-> 204]

CallerSense == [i \in SenseProbes |-> 204]

Packets ==
  [DataDirection : {"READ", "WRITE", "BIDIRECTIONAL"},
   CdbLength : CdbLengths,
   Cdb : {CallerCdb},
   InTransferLength : Lengths,
   OutTransferLength : Lengths,
   SenseDataLength : SenseLengths,
   InDataBuffer : {CallerIn},
   OutDataBuffer : {CallerOut},
   SenseData : {CallerSense},
   HostAdapterStatus : {"HOST_ADAPTER_TIMEOUT_COMMAND"},
   TargetStatus : {"TARGET_CHECK_CONDITION"}]

\* a freshly allocated DMA buffer is not cleared: all zero or all ones
FillBytes == {0, 255}

DmaBases == {<<0, 0, 0, 4096>>}

---------------------------------------------------------------------------
\* The device

IstatusValues == {U32(0), U32(1), U32(MPT_IMASK_REPLY)}

\* bit 31 set: the reply is the address of an error frame, shifted right
ErrorFrameToken(base) ==
  LET a == Truncate32(MPT_SCSI_DMA_ADDR(base, OffsetIoErrorReply))
  IN  <<(Limb \div 2) + ((a[1] \div 2) % (Limb \div 2)),
        ((a[1] % 2) * (Limb \div 2)) + (a[2] \div 2)>>

ReplyTokens(base) == {U32(1), U32(2), ErrorFrameToken(base), MAX_UINT32}

SecondReplies == {MAX_UINT32, U32(1)}

DeviceOutcomes ==
  {[kind |-> "data", byte |-> 90]}
  \cup {[kind |-> "error", status |-> s] :
          s \in {MPT_SCSI_IO_ERROR_IOCSTATUS_DEVICE_NOT_THERE, 72}}

\* the device's DMA writes for the request frame it was given
DeviceWrite(dma, d) ==
  IF d.kind = "data"
  THEN [dma EXCEPT
          !.Sense = [i \in SenseProbes |->
                       IF i < dma.IoRequest.SenseBufferLength
                       THEN d.byte ELSE dma.Sense[i]],
          !.Data = [i \in DataProbes |->
                      IF /\ dma.IoRequest.Control =
                              MPT_SCSIIO_REQUEST_CONTROL_TXDIR_READ
                         /\ i < dma.IoRequest.Sg.Length
                      THEN d.byte ELSE dma.Data[i]]]
  ELSE [dma EXCEPT
          !.IoErrorReply = [IOCStatus |-> d.status,
                            TransferCount |-> U32(0),
                            SenseCount |-> U32(0)]]

---------------------------------------------------------------------------
\* The controller as the platform presents it

LSI_LOGIC_PCI_VENDOR_ID == 4096

LSI_53C1030_PCI_DEVICE_ID == 48

LSI_SAS1068_PCI_DEVICE_ID == 84

LSI_SAS1068E_PCI_DEVICE_ID == 88

PCI_VENDOR_ID_VMWARE == 5549

PCI_DEVICE_ID_VMWARE_PVSCSI == 1984

MPT_IMASK_DOORBELL == 1

TARGET_MAX_BYTES == 16

\* the attributes MptScsiControllerStart enables
StartAttributes == {"EFI_PCI_IO_ATTRIBUTE_IO", "EFI_PCI_IO_ATTRIBUTE_BUS_MASTER"}

\* what a successful MptScsiControllerStart holds until MptScsiControllerStop
AttachedResources == {"Dev", "PciIo", "Dma", "DmaMapping", "PassThru"}

\* the registers as MptScsiReset leaves them
ResetRegs == [IMASK |-> U32(MPT_IMASK_DOORBELL + MPT_IMASK_REPLY),
              ISTATUS |-> U32(0)]

ZeroTarget == [i \in 0..(TARGET_MAX_BYTES - 1) |-> 0]

\* the controller of the request path: attached by MptScsiControllerStart
Attached ==
  /\ Pci = [VendorId |-> LSI_LOGIC_PCI_VENDOR_ID,
            DeviceId |-> LSI_53C1030_PCI_DEVICE_ID]
  /\ Attributes = StartAttributes
  /\ OriginalPciAttributes = {}
  /\ Resources = AttachedResources
  /\ Regs = ResetRegs
  /\ platformLog = <<>>
  /\ bindOp = "MptScsiControllerStart"

---------------------------------------------------------------------------
\* State machine

ClearPolls(log) ==
  Len(SelectSeq(log, LAMBDA e : /\ e.op = "R" /\ e.reg = MPT_REG_ISTATUS /\ e.ok
                                /\ ~LowBitSet(e.val, MPT_IMASK_REPLY)))

Init ==
  /\ Packet \in Packets
  /\ \E tl \in TargetLuns : Target = tl[1] /\ Lun = tl[2]
  /\ Dma \in {FillDma(b) : b \in FillBytes}
  /\ DmaPhysical \in DmaBases
  /\ pc = "idle"
  /\ Status = "EFI_SUCCESS"
  /\ Reply = U32(0)
  /\ regLog = <<>>
  /\ outstanding = 0
  /\ calls = 0
  /\ posted = 1
  /\ Attached
  /\ TargetBytes = ZeroTarget
  /\ Enumerated = <<>>

\* MptScsiPassThru is entered: MptScsiPopulateRequest and its error return.
\* The caller passes its packet as the previous call left it (a retry with
\* the clamped or zeroed lengths); the first packet is any of Packets.
Call ==
  /\ pc \in {"idle", "done"}
  /\ calls < MaxCalls
  /\ LET r == MptScsiPopulateRequest(Dma, DmaPhysical, Target, Lun, Packet)
     IN  /\ Packet' = r.Packet
         /\ Dma' = r.Dma
         /\ Status' = r.Status
         /\ pc' = IF r.Status = "EFI_SUCCESS" THEN "send" ELSE "done"
  /\ calls' = calls + 1
  /\ regLog' = <<>>
  /\ Reply' = U32(0)
  /\ UNCHANGED <<Target, Lun, DmaPhysical, outstanding, posted>>
  /\ UNCHANGED bindingVars

\* between two calls the caller chooses the target and LUN of its next call
Retarget ==
  /\ pc = "done"
  /\ calls < MaxCalls
  /\ \E tl \in TargetLuns :
       /\ <<Target, Lun>> # tl
       /\ Target' = tl[1]
       /\ Lun' = tl[2]
  /\ UNCHANGED <<Packet, Dma, DmaPhysical, pc, Status, Reply, regLog,
                 outstanding, calls, posted>>
  /\ UNCHANGED bindingVars

\* MptScsiSendRequest and the assignment that follows it in MptScsiPassThru
Send ==
  /\ pc = "send"
  /\ \E ok \in BOOLEAN :
       LET r == MptScsiSendRequest(Packet, ok)
           addr == Truncate32(MPT_SCSI_DMA_ADDR(DmaPhysical, OffsetIoRequest))
       IN  /\ regLog' = Append(regLog, RegWrite(MPT_REG_REQ_Q, addr, ok))
           /\ Status' = r.Status
           /\ IF ok
              THEN /\ Packet' = [r.Packet EXCEPT
                                   !.HostAdapterStatus = "HOST_ADAPTER_OK"]
                   /\ outstanding' = outstanding + 1
                   /\ pc' = "poll"
              ELSE /\ Packet' = r.Packet
                   /\ outstanding' = outstanding
                   /\ pc' = "done"
  /\ UNCHANGED <<Target, Lun, Dma, DmaPhysical, Reply, calls, posted>>
  /\ UNCHANGED bindingVars

\* goto Fatal from MptScsiGetReply or MptScsiHandleReply
GotoFatal(packet) ==
  /\ Packet' = Fatal(packet)
  /\ Status' = "EFI_DEVICE_ERROR"
  /\ pc' = "done"

\* seeded fault: any interrupt bit ends the wait
ReplyRaised_AnyBit(istatus) == istatus # U32(0)

\* seeded fault: the doorbell bit is tested instead of the reply bit
ReplyRaised_DoorbellBit(istatus) == LowBitSet(istatus, MPT_IMASK_DOORBELL)

\* MptScsiGetReply: the test that leaves the polling loop
ReplyRaised(istatus) == LowBitSet(istatus, MPT_IMASK_REPLY)

\* MptScsiGetReply: one read of the interrupt status register
Poll ==
  /\ pc = "poll"
  /\ \/ /\ regLog' = Append(regLog, RegRead(MPT_REG_ISTATUS, U32(0), FALSE))
        /\ GotoFatal(Packet)
     \/ \E v \in IstatusValues :
          /\ regLog' = Append(regLog, RegRead(MPT_REG_ISTATUS, v, TRUE))
          /\ IF ReplyRaised(v)
             THEN pc' = "read1"
             ELSE /\ ClearPolls(regLog) < MaxPolls
                  /\ pc' = "stall"
          /\ UNCHANGED <<Packet, Status>>
  /\ UNCHANGED <<Target, Lun, Dma, DmaPhysical, Reply, outstanding, calls,
                 posted>>
  /\ UNCHANGED bindingVars

\* MptScsiGetReply: gBS->Stall, then the loop reads again
Stall ==
  /\ pc = "stall"
  /\ pc' = "poll"
  /\ UNCHANGED <<Packet, Target, Lun, Dma, DmaPhysical, Status, Reply, regLog,
                 outstanding, calls, posted>>
  /\ UNCHANGED bindingVars

\* the device answers with an error frame: it has taken a posted frame
\* and hands its address back, shifted right, with bit 31 set
UsesErrorFrame(token) == Bit31(token) /\ token # MAX_UINT32

\* MptScsiGetReply: the read of the reply token
ReadReply ==
  /\ pc = "read1"
  /\ \/ /\ regLog' = Append(regLog, RegRead(MPT_REG_REP_Q, U32(0), FALSE))
        /\ GotoFatal(Packet)
        /\ UNCHANGED <<Reply, outstanding, posted>>
     \/ \E v \in ReplyTokens(DmaPhysical) :
          /\ UsesErrorFrame(v) => posted > 0
          /\ regLog' = Append(regLog, RegRead(MPT_REG_REP_Q, v, TRUE))
          /\ Reply' = v
          /\ outstanding' = IF v # MAX_UINT32 /\ outstanding > 0
                            THEN outstanding - 1 ELSE outstanding
          /\ posted' = IF UsesErrorFrame(v) THEN posted - 1 ELSE posted
          /\ pc' = "read2"
          /\ UNCHANGED <<Packet, Status>>
  /\ UNCHANGED <<Target, Lun, Dma, DmaPhysical, calls>>
  /\ UNCHANGED bindingVars

\* seeded fault: the value of the second read is not compared
EmptyReplyFails_IgnoresValue(ok, v) == ~ok

\* MptScsiGetReply: the test of the second read of the reply queue
EmptyReplyFails(ok, v) == ~ok \/ v # MAX_UINT32

\* MptScsiGetReply: the read that must find the reply queue empty
ReadEmpty ==
  /\ pc = "read2"
  /\ \/ /\ regLog' = Append(regLog, RegRead(MPT_REG_REP_Q, U32(0), FALSE))
        /\ EmptyReplyFails(FALSE, U32(0))
        /\ GotoFatal(Packet)
     \/ \E v \in SecondReplies :
          /\ regLog' = Append(regLog, RegRead(MPT_REG_REP_Q, v, TRUE))
          /\ IF EmptyReplyFails(TRUE, v)
             THEN GotoFatal(Packet)
             ELSE /\ pc' = "handle"
                  /\ UNCHANGED <<Packet, Status>>
  /\ UNCHANGED <<Target, Lun, Dma, DmaPhysical, Reply, outstanding, calls,
                 posted>>
  /\ UNCHANGED bindingVars

\* MptScsiHandleReply and the return or goto Fatal that follows it
Handle ==
  /\ pc = "handle"
  /\ \E ok \in BOOLEAN :
       LET r == MptScsiHandleReply(Dma, Reply, Packet, ok)
           addr == Truncate32(MPT_SCSI_DMA_ADDR(DmaPhysical, OffsetIoErrorReply))
       IN  /\ regLog' = IF ReplyKind(Dma, Reply) = "error"
                        THEN Append(regLog, RegWrite(MPT_REG_REP_Q, addr, ok))
                        ELSE regLog
           /\ posted' = IF ReplyKind(Dma, Reply) = "error" /\ ok
                        THEN posted + 1 ELSE posted
           /\ IF r.Status = "EFI_SUCCESS"
              THEN /\ Packet' = r.Packet
                   /\ Status' = r.Status
                   /\ pc' = "done"
              ELSE GotoFatal(r.Packet)
  /\ UNCHANGED <<Target, Lun, Dma, DmaPhysical, Reply, outstanding, calls>>
  /\ UNCHANGED bindingVars

\* the device works on the request it was given: while the driver polls,
\* it may fill the sense and data areas or the error reply frame
DeviceDma ==
  /\ pc \in {"poll", "stall"}
  /\ \E d \in DeviceOutcomes : Dma' = DeviceWrite(Dma, d)
  /\ UNCHANGED <<Packet, Target, Lun, DmaPhysical, pc, Status, Reply, regLog,
                 outstanding, calls, posted>>
  /\ UNCHANGED bindingVars

Next ==
  \/ Call
  \/ Retarget
  \/ Send
  \/ Poll
  \/ Stall
  \/ ReadReply
  \/ ReadEmpty
  \/ Handle
  \/ DeviceDma

Spec == Init /\ [][Next]_vars

---------------------------------------------------------------------------
\* Hardware bring-up: MptDoorbell, MptScsiReset, MptScsiInit

MPT_REG_DOORBELL == 0

MPT_REG_IMASK == 52

MPT_DOORBELL_RESET == 64

MPT_DOORBELL_HANDSHAKE == 66

MPT_MESSAGE_HDR_FUNCTION_IOC_INIT == 2

MPT_IOC_WHOINIT_ROM_BIOS == 2

\* sizeof (MPT_IO_CONTROLLER_INIT_REQUEST) and sizeof (MPT_SCSI_IO_ERROR_REPLY):
\* the packed Data followed by the UINT64
InitRequestSize == 32

ErrorReplySize == 40

\* sizeof (MPT_IO_CONTROLLER_INIT_REPLY)
InitReplySize == 20

\* the value MptDoorbell writes: function in bits 24..31, argument in 16..23
DoorbellValue(func, arg) == <<(func * 256) + arg, 0>>

\* the 32-bit words of Req as the FIFO write sends them (little endian)
InitRequestWords ==
  << <<MPT_MESSAGE_HDR_FUNCTION_IOC_INIT * 256, MPT_IOC_WHOINIT_ROM_BIOS>>,
     <<1, 256>>,
     U32(0),
     <<0, ErrorReplySize>>,
     U32(0), U32(0), U32(0), U32(0) >>

\* the first k register accesses of a list, the k-th having failed (k = 0:
\* all of them, none failed)
Attempted(accesses, k) ==
  IF k = 0 THEN accesses
  ELSE [i \in 1..k |-> IF i = k THEN [accesses[i] EXCEPT !.ok = FALSE]
                                ELSE accesses[i]]

\* the registers after the accesses of a log, in order; the device's own
\* changes are given by after (its registers once it has reset) and intr
\* (the interrupt status it raises for doorbell traffic)
RegsAfter(regs, log, after, intr) ==
  LET Step[i \in 0..Len(log)] ==
        IF i = 0 THEN regs
        ELSE LET e == log[i]
                 r == Step[i - 1]
             IN  IF ~e.ok THEN r
                 ELSE IF e.reg = MPT_REG_IMASK THEN [r EXCEPT !.IMASK = e.val]
                 ELSE IF e.reg = MPT_REG_ISTATUS
                 THEN [r EXCEPT !.ISTATUS = e.val]
                 ELSE IF e.reg = MPT_REG_DOORBELL
                         /\ e.val = DoorbellValue(MPT_DOORBELL_RESET, 0)
                 THEN after
                 ELSE IF e.reg = MPT_REG_DOORBELL
                 THEN [r EXCEPT !.ISTATUS = intr]
                 ELSE r
  IN  Step[Len(log)]

ResetAccesses ==
  << RegWrite(MPT_REG_DOORBELL, DoorbellValue(MPT_DOORBELL_RESET, 0), TRUE),
     RegWrite(MPT_REG_IMASK, U32(MPT_IMASK_DOORBELL + MPT_IMASK_REPLY), TRUE),
     RegWrite(MPT_REG_ISTATUS, U32(0), TRUE) >>

\* seeded fault: the last write goes to the doorbell, not to the status
ResetAccesses_NoClear ==
  << RegWrite(MPT_REG_DOORBELL, DoorbellValue(MPT_DOORBELL_RESET, 0), TRUE),
     RegWrite(MPT_REG_IMASK, U32(MPT_IMASK_DOORBELL + MPT_IMASK_REPLY), TRUE),
     RegWrite(MPT_REG_DOORBELL, U32(0), TRUE) >>

\* seeded fault: MptScsiReset leaves the interrupt status as the device set it
Reset_NoClear(regs, after, failAt) ==
  LET log == Attempted(ResetAccesses_NoClear, failAt)
  IN  [Status |-> IF failAt = 0 THEN "EFI_SUCCESS" ELSE "EFI_DEVICE_ERROR",
       Log |-> log,
       Regs |-> RegsAfter(regs, log, after, regs.ISTATUS)]

\* MptScsiReset, the failAt-th of its writes failing (0: none)
MptScsiReset(regs, after, failAt) ==
  LET log == Attempted(ResetAccesses, failAt)
  IN  [Status |-> IF failAt = 0 THEN "EFI_SUCCESS" ELSE "EFI_DEVICE_ERROR",
       Log |-> log,
       Regs |-> RegsAfter(regs, log, after, regs.ISTATUS)]

\* the reads of the doorbell in MptScsiInit: 16 bits of the reply each
ReplyReads(word) ==
  [i \in 1..(InitReplySize \div 2) |-> RegRead(MPT_REG_DOORBELL, word, TRUE)]

\* seeded fault: the error-reply frame is posted before the reply is read
HandshakeAccesses_PostsEarly(base, word) ==
  << RegWrite(MPT_REG_DOORBELL,
              DoorbellValue(MPT_DOORBELL_HANDSHAKE, InitRequestSize \div 4),
              TRUE),
     [op |-> "WF", reg |-> MPT_REG_DOORBELL, val |-> InitRequestWords,
      ok |-> TRUE],
     RegWrite(MPT_REG_REP_Q,
              Truncate32(MPT_SCSI_DMA_ADDR(base, OffsetIoErrorReply)),
              TRUE) >>
  \o ReplyReads(word)
  \o << RegWrite(MPT_REG_ISTATUS, U32(0), TRUE) >>

\* the register accesses of MptScsiInit after its MptScsiReset
HandshakeAccesses(base, word) ==
  << RegWrite(MPT_REG_DOORBELL,
              DoorbellValue(MPT_DOORBELL_HANDSHAKE, InitRequestSize \div 4),
              TRUE),
     [op |-> "WF", reg |-> MPT_REG_DOORBELL, val |-> InitRequestWords,
      ok |-> TRUE] >>
  \o ReplyReads(word)
  \o << RegWrite(MPT_REG_ISTATUS, U32(0), TRUE),
        RegWrite(MPT_REG_REP_Q,
                 Truncate32(MPT_SCSI_DMA_ADDR(base, OffsetIoErrorReply)),
                 TRUE) >>

InitAccesses == Len(ResetAccesses) + Len(HandshakeAccesses(<<0, 0, 0, 0>>, U32(0)))

\* MptScsiInit, the failAt-th of its register accesses failing (0: none)
MptScsiInit(regs, base, after, intr, word, failAt) ==
  LET resetFail == IF failAt > Len(ResetAccesses) THEN 0 ELSE failAt
      reset == MptScsiReset(regs, after, resetFail)
      rest == IF failAt = 0 THEN HandshakeAccesses(base, word)
              ELSE Attempted(HandshakeAccesses(base, word),
                             failAt - Len(ResetAccesses))
  IN  IF reset.Status # "EFI_SUCCESS"
      THEN reset
      ELSE [Status |-> IF failAt = 0 THEN "EFI_SUCCESS" ELSE "EFI_DEVICE_ERROR",
            Log |-> reset.Log \o rest,
            Regs |-> RegsAfter(reset.Regs, rest, after, intr)]


---------------------------------------------------------------------------
\* The platform: EFI_PCI_IO_PROTOCOL and the boot services

\* EFI_PCI_IO_PROTOCOL.Attributes: the attributes of the controller after
\* a successful operation on them
PciIoAttributes(operation, current, attrs) ==
  CASE operation = "EfiPciIoAttributeOperationGet" -> current
    [] operation = "EfiPciIoAttributeOperationEnable" -> current \cup attrs
    [] operation = "EfiPciIoAttributeOperationSet" -> attrs

PciAttributes ==
  {"EFI_PCI_IO_ATTRIBUTE_IO", "EFI_PCI_IO_ATTRIBUTE_MEMORY",
   "EFI_PCI_IO_ATTRIBUTE_BUS_MASTER"}

PciIds ==
  {[VendorId |-> LSI_LOGIC_PCI_VENDOR_ID,
    DeviceId |-> LSI_53C1030_PCI_DEVICE_ID],
   [VendorId |-> LSI_LOGIC_PCI_VENDOR_ID,
    DeviceId |-> PCI_DEVICE_ID_VMWARE_PVSCSI],
   [VendorId |-> PCI_VENDOR_ID_VMWARE,
    DeviceId |-> PCI_DEVICE_ID_VMWARE_PVSCSI],
   [VendorId |-> PCI_VENDOR_ID_VMWARE,
    DeviceId |-> LSI_SAS1068_PCI_DEVICE_ID]}

\* the registers as the device may show them: at power-on and after the
\* doorbell function reset
DeviceResetStates ==
  {[IMASK |-> U32(0), ISTATUS |-> U32(0)],
   [IMASK |-> U32(0), ISTATUS |-> U32(MPT_IMASK_DOORBELL)],
   [IMASK |-> U32(255), ISTATUS |-> U32(MPT_IMASK_DOORBELL + MPT_IMASK_REPLY)]}

\* the interrupt status the device raises for doorbell traffic
DoorbellInterrupts == {U32(0), U32(MPT_IMASK_DOORBELL)}

\* the value of a doorbell read: 16 bits of the reply, which the code drops
ReplyWords == {<<0, Limb - 1>>}

Service(name, ok) == [svc |-> name, ok |-> ok]

---------------------------------------------------------------------------
\* MptScsiControllerStart

\* the steps of MptScsiControllerStart that can fail, in order
StartSteps ==
  <<"AllocateZeroPool", "OpenProtocol", "AttributesGet", "AttributesEnable",
    "AllocateBuffer", "Map", "BytesMapped", "MptScsiInit",
    "InstallProtocolInterface">>

StepIndex(step) == CHOOSE i \in 1..Len(StartSteps) : StartSteps[i] = step

\* the cleanup labels of MptScsiControllerStart, in the order they run
CleanupLabels ==
  <<"Unmap", "FreeBuffer", "RestoreAttributes", "CloseProtocol", "FreePool">>

LabelIndex(label) ==
  CHOOSE i \in 1..Len(CleanupLabels) : CleanupLabels[i] = label

\* seeded fault: a failure of MptScsiInit is not looked at
StartExit_IgnoresInit(fail) ==
  CASE fail = "AllocateZeroPool" -> "return"
    [] fail = "OpenProtocol" -> "FreePool"
    [] fail \in {"AttributesGet", "AttributesEnable"} -> "CloseProtocol"
    [] fail = "AllocateBuffer" -> "RestoreAttributes"
    [] fail = "Map" -> "FreeBuffer"
    [] fail \in {"BytesMapped", "InstallProtocolInterface"} -> "Unmap"
    [] OTHER -> "Success"

\* seeded fault: a failed Map leaves by the label after FreeBuffer
StartExit_MapLeaksBuffer(fail) ==
  CASE fail = "AllocateZeroPool" -> "return"
    [] fail = "OpenProtocol" -> "FreePool"
    [] fail \in {"AttributesGet", "AttributesEnable"} -> "CloseProtocol"
    [] fail \in {"AllocateBuffer", "Map"} -> "RestoreAttributes"
    [] fail \in {"BytesMapped", "MptScsiInit", "InstallProtocolInterface"}
         -> "Unmap"
    [] OTHER -> "Success"

\* where MptScsiControllerStart goes when the given step fails
StartExit(fail) ==
  CASE fail = "AllocateZeroPool" -> "return"
    [] fail = "OpenProtocol" -> "FreePool"
    [] fail \in {"AttributesGet", "AttributesEnable"} -> "CloseProtocol"
    [] fail = "AllocateBuffer" -> "RestoreAttributes"
    [] fail = "Map" -> "FreeBuffer"
    [] fail \in {"BytesMapped", "MptScsiInit", "InstallProtocolInterface"}
         -> "Unmap"
    [] OTHER -> "Success"

\* the EFI_STATUS of the step that failed
StartStatus(fail, initStatus) ==
  CASE fail \in {"AllocateZeroPool", "BytesMapped"} -> "EFI_OUT_OF_RESOURCES"
    [] fail = "OpenProtocol" -> "EFI_ACCESS_DENIED"
    [] fail \in {"AttributesGet", "AttributesEnable"} -> "EFI_UNSUPPORTED"
    [] fail \in {"AllocateBuffer", "Map", "InstallProtocolInterface"}
         -> "EFI_OUT_OF_RESOURCES"
    [] fail = "MptScsiInit" -> initStatus
    [] OTHER -> "EFI_SUCCESS"

\* the step succeeded: it was reached and is not the one that failed
Done(step, fail) == fail = "none" \/ StepIndex(step) < StepIndex(fail)

\* the services MptScsiControllerStart calls before its exit; the test of
\* BytesMapped calls none
StartCalls(fail) ==
  LET last == IF fail = "none" THEN Len(StartSteps) ELSE StepIndex(fail)
      all == [i \in 1..last |->
                Service(StartSteps[i], fail = "none" \/ i < last)]
  IN  SelectSeq(all, LAMBDA c : c.svc # "BytesMapped")

\* the services the cleanup labels call, from the given label on
CleanupCalls(label) ==
  IF label \in {"Success", "return"} THEN <<>>
  ELSE [i \in 1..(Len(CleanupLabels) - LabelIndex(label) + 1) |->
          Service(CleanupLabels[LabelIndex(label) + i - 1], TRUE)]

\* what the successful steps before the failed one acquired
Acquired(fail) ==
  {r \in AttachedResources :
     \/ r = "Dev" /\ Done("AllocateZeroPool", fail)
     \/ r = "PciIo" /\ Done("OpenProtocol", fail)
     \/ r = "Dma" /\ Done("AllocateBuffer", fail)
     \/ r = "DmaMapping" /\ Done("Map", fail)
     \/ r = "PassThru" /\ Done("InstallProtocolInterface", fail)}

\* what the cleanup labels release, from the given label on
Released(label) ==
  IF label \in {"Success", "return"} THEN {}
  ELSE {r \in AttachedResources :
          \/ r = "DmaMapping" /\ LabelIndex(label) <= LabelIndex("Unmap")
          \/ r = "Dma" /\ LabelIndex(label) <= LabelIndex("FreeBuffer")
          \/ r = "PciIo" /\ LabelIndex(label) <= LabelIndex("CloseProtocol")
          \/ r = "Dev" /\ LabelIndex(label) <= LabelIndex("FreePool")}

\* what the driver holds when MptScsiControllerStart returns
StartResources(fail, exit) ==
  IF exit = "Success" THEN AttachedResources
  ELSE Acquired(fail) \ Released(exit)

\* the controller's attributes when MptScsiControllerStart returns; the
\* attributes it restores are those its AttributeOperationGet stored
StartAttributesAfter(current, fail, exit) ==
  LET enabled == IF Done("AttributesEnable", fail)
                 THEN PciIoAttributes("EfiPciIoAttributeOperationEnable",
                                      current, StartAttributes)
                 ELSE current
  IN  IF exit \in {"Unmap", "FreeBuffer", "RestoreAttributes"}
      THEN PciIoAttributes("EfiPciIoAttributeOperationEnable", enabled,
                           current)
      ELSE enabled

\* the request path is idle while the driver binding calls run
IdlePacket ==
  [DataDirection |-> "READ", CdbLength |-> 6, Cdb |-> CallerCdb,
   InTransferLength |-> 0, OutTransferLength |-> 0, SenseDataLength |-> 0,
   InDataBuffer |-> CallerIn, OutDataBuffer |-> CallerOut,
   SenseData |-> CallerSense,
   HostAdapterStatus |-> "HOST_ADAPTER_TIMEOUT_COMMAND",
   TargetStatus |-> "TARGET_CHECK_CONDITION"]

PassThruIdle ==
  /\ Packet = IdlePacket
  /\ Target = 0
  /\ Dma = FillDma(0)
  /\ pc = "idle"
  /\ Reply = U32(0)
  /\ outstanding = 0
  /\ calls = 0

BindingInit ==
  /\ PassThruIdle
  /\ Lun = 0
  /\ DmaPhysical \in DmaBases
  /\ Status = "EFI_SUCCESS"
  /\ regLog = <<>>
  /\ posted = 0
  /\ Pci \in PciIds
  /\ Attributes \in SUBSET PciAttributes
  /\ OriginalPciAttributes = {}
  /\ Resources = {}
  /\ Regs \in DeviceResetStates
  /\ platformLog = <<>>
  /\ bindOp = "none"
  /\ TargetBytes = ZeroTarget
  /\ Enumerated = <<>>

\* a successful write of the doorbell function reset empties the device's
\* queues; the last write of MptScsiInit posts one error-reply frame
PostedAfter(log, before) ==
  LET Step[i \in 0..Len(log)] ==
        IF i = 0 THEN before
        ELSE IF ~log[i].ok THEN Step[i - 1]
        ELSE IF log[i].reg = MPT_REG_DOORBELL
                /\ log[i].val = DoorbellValue(MPT_DOORBELL_RESET, 0)
        THEN 0
        ELSE IF log[i].reg = MPT_REG_REP_Q /\ log[i].op = "W"
        THEN Step[i - 1] + 1
        ELSE Step[i - 1]
  IN  Step[Len(log)]

\* what PciIo->AllocateBuffer may hand out: pages whose content is whatever
\* was left in them
AllocatedBuffers == {FillDma(b) : b \in FillBytes}

\* MptScsiControllerStart returns, fail being the step that failed, init
\* the outcome of MptScsiInit if it ran and buffer the pages AllocateBuffer
\* handed out; Dev->Dma is those pages unless the FreeBuffer label ran
StartReturns(fail, init, buffer) ==
  LET runsInit == Done("BytesMapped", fail)
      exit == StartExit(fail)
  IN  /\ Status' = StartStatus(fail, init.Status)
      /\ Dma' = IF "Dma" \in StartResources(fail, exit) THEN buffer ELSE Dma
      /\ regLog' = IF runsInit THEN init.Log ELSE <<>>
      /\ Regs' = IF runsInit THEN init.Regs ELSE Regs
      /\ posted' = IF runsInit THEN PostedAfter(init.Log, posted) ELSE posted
      /\ OriginalPciAttributes' =
           IF Done("AttributesGet", fail)
           THEN PciIoAttributes("EfiPciIoAttributeOperationGet",
                                Attributes, {})
           ELSE {}
      /\ Attributes' = StartAttributesAfter(Attributes, fail, exit)
      /\ Resources' = StartResources(fail, exit)
      /\ platformLog' = StartCalls(fail) \o CleanupCalls(exit)

NoInit == [Status |-> "EFI_SUCCESS", Log |-> <<>>, Regs |-> Regs]

MptScsiControllerStart ==
  /\ Resources = {}
  /\ \/ \E i \in 1..(StepIndex("MptScsiInit") - 1) :
          StartReturns(StartSteps[i], NoInit, Dma)
     \/ \E after \in DeviceResetStates, intr \in DoorbellInterrupts,
           word \in ReplyWords, failAt \in 0..InitAccesses :
          LET init == MptScsiInit(Regs, DmaPhysical, after, intr, word, failAt)
          IN  IF failAt # 0
              THEN StartReturns("MptScsiInit", init, Dma)
              ELSE \/ StartReturns("InstallProtocolInterface", init, Dma)
                   \/ \E buffer \in AllocatedBuffers :
                        StartReturns("none", init, buffer)
  /\ bindOp' = "MptScsiControllerStart"
  /\ UNCHANGED <<Pci, TargetBytes, Enumerated, Lun, DmaPhysical>>
  /\ UNCHANGED <<Packet, Target, pc, Reply, outstanding, calls>>

---------------------------------------------------------------------------
\* MptScsiControllerStop

\* the EFI_STATUS MptScsiControllerStop returns once the protocol was found
StopStatus(uninstallStatus, resetStatus) == uninstallStatus

\* seeded fault: the DMA buffer is unmapped and freed before the reset
StopCalls_FreesBeforeReset(resetStatus) ==
  << Service("OpenProtocol", TRUE),
     Service("UninstallProtocolInterface", TRUE),
     Service("Unmap", TRUE),
     Service("FreeBuffer", TRUE),
     Service("MptScsiReset", resetStatus = "EFI_SUCCESS"),
     Service("RestoreAttributes", TRUE),
     Service("CloseProtocol", TRUE),
     Service("FreePool", TRUE) >>

\* the services MptScsiControllerStop calls once the protocol was found
StopCalls(resetStatus) ==
  << Service("OpenProtocol", TRUE),
     Service("UninstallProtocolInterface", TRUE),
     Service("MptScsiReset", resetStatus = "EFI_SUCCESS"),
     Service("Unmap", TRUE),
     Service("FreeBuffer", TRUE),
     Service("RestoreAttributes", TRUE),
     Service("CloseProtocol", TRUE),
     Service("FreePool", TRUE) >>

\* UninstallProtocolInterface succeeds: the code asserts it
MptScsiControllerStop ==
  /\ IF "PassThru" \notin Resources
     THEN /\ Status' = "EFI_UNSUPPORTED"
          /\ platformLog' = <<Service("OpenProtocol", FALSE)>>
          /\ regLog' = <<>>
          /\ UNCHANGED <<Regs, posted, Attributes, Resources>>
     ELSE \E after \in DeviceResetStates, failAt \in 0..Len(ResetAccesses) :
            LET reset == MptScsiReset(Regs, after, failAt)
            IN  /\ Status' = StopStatus("EFI_SUCCESS", reset.Status)
                /\ platformLog' = StopCalls(reset.Status)
                /\ regLog' = reset.Log
                /\ Regs' = reset.Regs
                /\ posted' = PostedAfter(reset.Log, posted)
                /\ Attributes' =
                     PciIoAttributes("EfiPciIoAttributeOperationEnable",
                                     Attributes, OriginalPciAttributes)
                /\ Resources' = {}
  /\ bindOp' = "MptScsiControllerStop"
  /\ UNCHANGED <<Pci, OriginalPciAttributes, TargetBytes, Enumerated, Lun,
                 DmaPhysical>>
  /\ UNCHANGED passThruVars

---------------------------------------------------------------------------
\* MptScsiControllerSupported and the PVSCSI driver binding

\* MptScsiControllerSupported, given whether OpenProtocol and Pci.Read succeed
MptScsiControllerSupported(pci, openOk, readOk) ==
  IF ~openOk THEN "EFI_ACCESS_DENIED"
  ELSE IF ~readOk THEN "EFI_DEVICE_ERROR"
  ELSE IF /\ pci.VendorId = LSI_LOGIC_PCI_VENDOR_ID
          /\ pci.DeviceId \in {LSI_53C1030_PCI_DEVICE_ID,
                                LSI_SAS1068_PCI_DEVICE_ID,
                                LSI_SAS1068E_PCI_DEVICE_ID}
  THEN "EFI_SUCCESS"
  ELSE "EFI_UNSUPPORTED"

\* PvScsiDriverBindingSupported, given the same
PvScsiDriverBindingSupported(pci, openOk, readOk) ==
  IF ~openOk THEN "EFI_ACCESS_DENIED"
  ELSE IF ~readOk THEN "EFI_DEVICE_ERROR"
  ELSE IF \/ pci.VendorId # PCI_VENDOR_ID_VMWARE
          \/ pci.DeviceId # PCI_DEVICE_ID_VMWARE_PVSCSI
  THEN "EFI_UNSUPPORTED"
  ELSE "EFI_SUCCESS"

\* seeded fault: PvScsiDriverBindingStart accepts what Supported accepts
PvStart_AcceptsSupported(pci) ==
  PvScsiDriverBindingSupported(pci, TRUE, TRUE)

PvScsiDriverBindingStart(pci) == "EFI_UNSUPPORTED"

PvScsiDriverBindingStop(pci) == "EFI_UNSUPPORTED"

\* the services of a Supported call: OpenProtocol BY_DRIVER fails when the
\* controller's PciIo is already opened by a driver
SupportedCalls(openOk, readOk) ==
  IF ~openOk THEN <<Service("OpenProtocol", FALSE)>>
  ELSE <<Service("OpenProtocol", TRUE), Service("Pci.Read", readOk),
         Service("CloseProtocol", TRUE)>>

\* a binding call that touches neither the controller nor the device
QueryOnly ==
  /\ regLog' = <<>>
  /\ UNCHANGED <<Pci, Attributes, OriginalPciAttributes, Resources, Regs,
                 posted, TargetBytes, Enumerated, Lun, DmaPhysical>>
  /\ UNCHANGED passThruVars

Supported ==
  /\ \E openOk, readOk \in BOOLEAN :
       /\ "PciIo" \in Resources => ~openOk
       /\ ~openOk => readOk
       /\ Status' = MptScsiControllerSupported(Pci, openOk, readOk)
       /\ platformLog' = SupportedCalls(openOk, readOk)
  /\ bindOp' = "MptScsiControllerSupported"
  /\ QueryOnly

PvSupported ==
  /\ \E openOk, readOk \in BOOLEAN :
       /\ "PciIo" \in Resources => ~openOk
       /\ ~openOk => readOk
       /\ Status' = PvScsiDriverBindingSupported(Pci, openOk, readOk)
       /\ platformLog' = SupportedCalls(openOk, readOk)
  /\ bindOp' = "PvScsiDriverBindingSupported"
  /\ QueryOnly

PvStart ==
  /\ Status' = PvScsiDriverBindingStart(Pci)
  /\ platformLog' = <<>>
  /\ bindOp' = "PvScsiDriverBindingStart"
  /\ QueryOnly

PvStop ==
  /\ Status' = PvScsiDriverBindingStop(Pci)
  /\ platformLog' = <<>>
  /\ bindOp' = "PvScsiDriverBindingStop"
  /\ QueryOnly

BindingNext ==
  \/ MptScsiControllerStart
  \/ MptScsiControllerStop
  \/ Supported
  \/ PvSupported
  \/ PvStart
  \/ PvStop

BindingSpec == BindingInit /\ [][BindingNext]_vars

---------------------------------------------------------------------------
\* MptScsiGetNextTargetLun and MptScsiGetNextTarget

\* seeded fault: only the first byte of the target is looked at
IsTargetInitialized_FirstByte(target) == target[0] # 255

IsTargetInitialized(target) ==
  \E Idx \in 0..(TARGET_MAX_BYTES - 1) : target[Idx] # 255

MptScsiGetNextTargetLun(target, lun) ==
  IF ~IsTargetInitialized(target)
  THEN [Status |-> "EFI_SUCCESS",
        Target |-> [i \in DOMAIN target |->
                      IF i < TARGET_MAX_BYTES THEN 0 ELSE target[i]],
        Lun |-> 0]
  ELSE [Status |-> "EFI_NOT_FOUND", Target |-> target, Lun |-> lun]

MptScsiGetNextTarget(target) ==
  IF ~IsTargetInitialized(target)
  THEN [Status |-> "EFI_SUCCESS",
        Target |-> [i \in DOMAIN target |->
                      IF i < TARGET_MAX_BYTES THEN 0 ELSE target[i]]]
  ELSE [Status |-> "EFI_NOT_FOUND", Target |-> target]

\* the caller's target arrays: all bytes 0xFF but at most two
EnumBytes == {0, 1, 255}

EnumTargets ==
  {[i \in 0..(TARGET_MAX_BYTES - 1) |->
      IF i = a THEN x ELSE IF i = b THEN y ELSE 255] :
     a \in 0..(TARGET_MAX_BYTES - 1), b \in 0..(TARGET_MAX_BYTES - 1),
     x \in EnumBytes, y \in EnumBytes}

EnumLuns == {0, 1, 7}

EnumInit ==
  /\ PassThruIdle
  /\ DmaPhysical \in DmaBases
  /\ Status = "EFI_SUCCESS"
  /\ regLog = <<>>
  /\ posted = 1
  /\ Attached
  /\ TargetBytes \in EnumTargets
  /\ Lun \in EnumLuns
  /\ Enumerated = <<>>

EnumUnchanged ==
  /\ UNCHANGED <<Pci, Attributes, OriginalPciAttributes, Resources, Regs,
                 platformLog, DmaPhysical, regLog, posted>>
  /\ UNCHANGED passThruVars

GetNextTargetLun ==
  /\ LET r == MptScsiGetNextTargetLun(TargetBytes, Lun)
     IN  /\ Status' = r.Status
         /\ TargetBytes' = r.Target
         /\ Lun' = r.Lun
         /\ Enumerated' =
              IF r.Status = "EFI_SUCCESS"
              THEN Append(Enumerated, [Target |-> r.Target, Lun |-> r.Lun])
              ELSE Enumerated
  /\ bindOp' = "MptScsiGetNextTargetLun"
  /\ EnumUnchanged

GetNextTarget ==
  /\ LET r == MptScsiGetNextTarget(TargetBytes)
     IN  /\ Status' = r.Status
         /\ TargetBytes' = r.Target
         /\ Enumerated' =
              IF r.Status = "EFI_SUCCESS"
              THEN Append(Enumerated, [Target |-> r.Target, Lun |-> Lun])
              ELSE Enumerated
  /\ bindOp' = "MptScsiGetNextTarget"
  /\ UNCHANGED Lun
  /\ EnumUnchanged

EnumNext ==
  \/ GetNextTargetLun
  \/ GetNextTarget

EnumSpec == EnumInit /\ [][EnumNext]_vars

---------------------------------------------------------------------------
\* MptScsiPassThru over the device addresses PciIo->Map may return

\* Dev->DmaPhysical is an EFI_PHYSICAL_ADDRESS, 64 bits wide, of a buffer
\* made of pages: the lowest pages, the last pages below 4 GiB, pages above
\* 4 GiB
MappedBases ==
  {<<0, 0, 0, 4096>>, <<0, 0, Limb - 1, 61440>>, <<0, 1, 0, 4096>>}

\* the caller's requests: a read and a write of one byte with sense data
AddrPackets ==
  {p \in Packets :
     /\ p.DataDirection \in {"READ", "WRITE"}
     /\ p.CdbLength = 6
     /\ p.InTransferLength = 1
     /\ p.OutTransferLength = 1
     /\ p.SenseDataLength = 1}

AddrInit ==
  /\ Packet \in AddrPackets
  /\ \E tl \in TargetLuns : Target = tl[1] /\ Lun = tl[2]
  /\ Dma = FillDma(0)
  /\ DmaPhysical \in MappedBases
  /\ pc = "idle"
  /\ Status = "EFI_SUCCESS"
  /\ Reply = U32(0)
  /\ regLog = <<>>
  /\ outstanding = 0
  /\ calls = 0
  /\ posted = 1
  /\ Attached
  /\ TargetBytes = ZeroTarget
  /\ Enumerated = <<>>

AddrSpec == AddrInit /\ [][Next]_vars

---------------------------------------------------------------------------
\* Vocabulary of the properties

Request == Dma.IoRequest

\* the step that enters MptScsiPassThru
CallStep == calls' = calls + 1

Unsupported(p) == p.DataDirection = "BIDIRECTIONAL" \/ p.CdbLength > CdbSize

Oversize(p) == p.InTransferLength > DataSize \/ p.OutTransferLength > DataSize

TransferLength(p) ==
  IF p.DataDirection = "READ" THEN p.InTransferLength ELSE p.OutTransferLength

TxDir(p) ==
  IF p.DataDirection = "READ"
  THEN MPT_SCSIIO_REQUEST_CONTROL_TXDIR_READ
  ELSE MPT_SCSIIO_REQUEST_CONTROL_TXDIR_WRITE

\* the reads of the reply queue register made by the current call
RepReads ==
  SelectSeq(regLog, LAMBDA e : e.op = "R" /\ e.reg = MPT_REG_REP_Q)

Submitted ==
  /\ Len(regLog) >= 1
  /\ regLog[1] = RegWrite(MPT_REG_REQ_Q,
                          Truncate32(AddOffset(DmaPhysical, OffsetIoRequest)),
                          TRUE)

\* both reads of the reply queue succeeded and the second found it empty
GotReply ==
  /\ Len(RepReads) = 2
  /\ RepReads[1].ok
  /\ RepReads[2].ok
  /\ RepReads[2].val = MAX_UINT32

LastAccess == regLog[Len(regLog)]

ErrorFrameWrite(ok) ==
  RegWrite(MPT_REG_REP_Q,
           Truncate32(AddOffset(DmaPhysical, OffsetIoErrorReply)), ok)

FatalOutcome ==
  /\ Status = "EFI_DEVICE_ERROR"
  /\ Packet.InTransferLength = 0
  /\ Packet.OutTransferLength = 0
  /\ Packet.SenseDataLength = 0
  /\ Packet.TargetStatus = "TARGET_TASK_ABORTED"

---------------------------------------------------------------------------
\* C1 as stated: every call whose Target or Lun is not 0 fails with
\* EFI_INVALID_PARAMETER and leaves Dma->IoRequest as it was.
C1_AsStated ==
  [][(CallStep /\ (Target # 0 \/ Lun # 0))
       => /\ pc' = "done"
          /\ Status' = "EFI_INVALID_PARAMETER"
          /\ Dma'.IoRequest = Dma.IoRequest]_vars

\* C1 amended: every call whose Target or Lun is not 0 fails, with
\* EFI_UNSUPPORTED when the request is bidirectional or its CDB is longer
\* than 16 bytes and with EFI_INVALID_PARAMETER otherwise, and leaves
\* Dma->IoRequest as it was.
C1_BadTargetRejected ==
  [][(CallStep /\ (Target # 0 \/ Lun # 0))
       => /\ pc' = "done"
          /\ Status' = IF Unsupported(Packet)
                       THEN "EFI_UNSUPPORTED" ELSE "EFI_INVALID_PARAMETER"
          /\ Dma'.IoRequest = Dma.IoRequest]_vars

C1_Witness ==
  /\ pc = "done"
  /\ Lun # 0
  /\ Status = "EFI_INVALID_PARAMETER"
  /\ Request = FillRequest(255)

\* C2 as stated: every call to target 0, LUN 0 with a transfer length above
\* 8192 returns EFI_BAD_BUFFER_SIZE, leaves neither length above 8192 and
\* accesses no register.
C2_AsStated ==
  [][(CallStep /\ Target = 0 /\ Lun = 0 /\ Oversize(Packet))
       => /\ pc' = "done"
          /\ Status' = "EFI_BAD_BUFFER_SIZE"
          /\ Packet'.InTransferLength <= DataSize
          /\ Packet'.OutTransferLength <= DataSize
          /\ regLog' = <<>>]_vars

\* C2 amended: every call to target 0, LUN 0 that is not bidirectional, has
\* a CDB of at most 16 bytes and a transfer length above 8192 returns
\* EFI_BAD_BUFFER_SIZE and accesses no register; InTransferLength is clamped
\* to 8192 when it was above, and only otherwise is OutTransferLength
\* clamped; nothing else of the packet changes.
C2_OversizeClamped ==
  [][(CallStep /\ Target = 0 /\ Lun = 0 /\ Oversize(Packet)
        /\ ~Unsupported(Packet))
       => /\ pc' = "done"
          /\ Status' = "EFI_BAD_BUFFER_SIZE"
          /\ Packet' = IF Packet.InTransferLength > DataSize
                       THEN [Packet EXCEPT !.InTransferLength = DataSize]
                       ELSE [Packet EXCEPT !.OutTransferLength = DataSize]
          /\ regLog' = <<>>]_vars

C2_Witness ==
  /\ pc = "done"
  /\ Status = "EFI_BAD_BUFFER_SIZE"
  /\ Packet.InTransferLength = 1
  /\ Packet.OutTransferLength = DataSize
  /\ regLog = <<>>

\* C3 as stated: a request that passes validation is populated with
\* EFI_SUCCESS, and the frame carries the packet's CdbLength, Cdb bytes,
\* the transfer length of its direction and a Control equal to its direction.
C3_AsStated ==
  [][(CallStep /\ Target = 0 /\ Lun = 0 /\ ~Unsupported(Packet)
        /\ ~Oversize(Packet))
       => /\ pc' = "send"
          /\ Status' = "EFI_SUCCESS"
          /\ Dma'.IoRequest.CDBLength = Packet.CdbLength
          /\ \A i \in CdbProbes :
               i < Packet.CdbLength => Dma'.IoRequest.CDB[i] = Packet.Cdb[i]
          /\ Dma'.IoRequest.DataLength = U32(TransferLength(Packet))
          /\ Dma'.IoRequest.Control = TxDir(Packet)]_vars

\* C3 amended: as stated, except that Control is TXDIR_NONE when the
\* transfer length of the packet's direction is 0, and the direction of the
\* packet only when that length is not 0.
C3_ValidPopulated ==
  [][(CallStep /\ Target = 0 /\ Lun = 0 /\ ~Unsupported(Packet)
        /\ ~Oversize(Packet))
       => /\ pc' = "send"
          /\ Status' = "EFI_SUCCESS"
          /\ Dma'.IoRequest.CDBLength = Packet.CdbLength
          /\ \A i \in CdbProbes :
               i < Packet.CdbLength => Dma'.IoRequest.CDB[i] = Packet.Cdb[i]
          /\ Dma'.IoRequest.DataLength = U32(TransferLength(Packet))
          /\ Dma'.IoRequest.Control =
               IF TransferLength(Packet) = 0
               THEN MPT_SCSIIO_REQUEST_CONTROL_TXDIR_NONE
               ELSE TxDir(Packet)]_vars

C3_Witness ==
  /\ pc = "send"
  /\ Packet.DataDirection = "READ"
  /\ Request.CDBLength = CdbSize
  /\ Request.CDB = CallerCdb
  /\ Request.DataLength = U32(DataSize)
  /\ Request.Control = MPT_SCSIIO_REQUEST_CONTROL_TXDIR_READ

\* C4: after a successful populate of a write request, the first
\* OutTransferLength bytes of Dma->Data equal the caller's OutDataBuffer.
C4_WriteRoundTrip ==
  (pc = "send" /\ Packet.DataDirection = "WRITE")
    => \A i \in DataProbes :
         i < Packet.OutTransferLength => Dma.Data[i] = Packet.OutDataBuffer[i]

C4_Witness ==
  /\ pc = "send"
  /\ Packet.DataDirection = "WRITE"
  /\ Packet.OutTransferLength = DataSize
  /\ Packet.InTransferLength = 1
  /\ Dma.Data = CallerOut

\* C5: when the first reply read returns the message context and the second
\* 0xFFFFFFFF, the call returns EFI_SUCCESS with HOST_ADAPTER_OK and
\* TARGET_GOOD, the caller's sense buffer holds SenseDataLength bytes of
\* Dma->Sense and, for a read, its input buffer holds InTransferLength bytes
\* of Dma->Data.
C5_GoodReply ==
  (pc = "done" /\ GotReply /\ RepReads[1].val = U32(1))
    => /\ Status = "EFI_SUCCESS"
       /\ Packet.HostAdapterStatus = "HOST_ADAPTER_OK"
       /\ Packet.TargetStatus = "TARGET_GOOD"
       /\ \A i \in SenseProbes :
            i < Packet.SenseDataLength => Packet.SenseData[i] = Dma.Sense[i]
       /\ Packet.DataDirection = "READ"
            => \A i \in DataProbes :
                 i < Packet.InTransferLength
                   => Packet.InDataBuffer[i] = Dma.Data[i]

C5_Witness ==
  /\ pc = "done"
  /\ GotReply
  /\ RepReads[1].val = U32(1)
  /\ Packet.DataDirection = "READ"
  /\ Packet.InTransferLength = DataSize
  /\ Packet.SenseDataLength = SenseSize
  /\ \A i \in DataProbes : Packet.InDataBuffer[i] = 90
  /\ \A i \in SenseProbes : Packet.SenseData[i] = 90

\* C6: when the reply token has bit 31 set, HostAdapterStatus becomes
\* SELECTION_TIMEOUT if the error reply's IOCStatus is 0x0043 and
\* HOST_ADAPTER_OTHER if not, and the last register access of the call is
\* the write of the error-reply frame's address to the reply queue.
C6_ErrorReply ==
  (pc = "done" /\ GotReply /\ Bit31(RepReads[1].val))
    => /\ Packet.HostAdapterStatus =
            IF Dma.IoErrorReply.IOCStatus = 67
            THEN "HOST_ADAPTER_SELECTION_TIMEOUT" ELSE "HOST_ADAPTER_OTHER"
       /\ LastAccess \in {ErrorFrameWrite(TRUE), ErrorFrameWrite(FALSE)}

C6_Witness ==
  /\ pc = "done"
  /\ GotReply
  /\ RepReads[1].val = ErrorFrameToken(DmaPhysical)
  /\ Dma.IoErrorReply.IOCStatus = 67
  /\ Packet.HostAdapterStatus = "HOST_ADAPTER_SELECTION_TIMEOUT"
  /\ Status = "EFI_SUCCESS"
  /\ LastAccess = ErrorFrameWrite(TRUE)

\* C7: when the second read of the reply queue returns anything but
\* 0xFFFFFFFF, the call ends in the fatal outcome with EFI_DEVICE_ERROR,
\* whatever the first read returned.
C7_SecondReplyFatal ==
  (pc = "done" /\ Len(RepReads) = 2 /\ RepReads[2].ok
     /\ RepReads[2].val # MAX_UINT32)
    => /\ FatalOutcome
       /\ Packet.HostAdapterStatus = "HOST_ADAPTER_OTHER"

C7_Witness ==
  /\ pc = "done"
  /\ Len(RepReads) = 2
  /\ RepReads[1].val = U32(1)
  /\ RepReads[2].ok
  /\ RepReads[2].val # MAX_UINT32
  /\ Status = "EFI_DEVICE_ERROR"

\* C8: at most one request posted to the request queue is outstanding in
\* the device, in every state reachable by MptScsiPassThru calls.
C8_OneInFlight == outstanding <= 1

\* C9: when MptScsiGetReply or MptScsiHandleReply fails after the request
\* was submitted, the call returns EFI_DEVICE_ERROR with both transfer
\* lengths and SenseDataLength 0 and TASK_ABORTED, and HostAdapterStatus is
\* HOST_ADAPTER_OTHER unless the classifier had set it before the re-post of
\* the error frame failed, and then it is the classifier's value.
C9_FatalHandling ==
  (/\ pc = "done"
   /\ Submitted
   /\ \/ \E i \in 2..Len(regLog) : ~regLog[i].ok
      \/ Len(RepReads) = 2 /\ RepReads[2].val # MAX_UINT32
      \/ GotReply /\ RepReads[1].val # U32(1) /\ ~Bit31(RepReads[1].val))
    => /\ FatalOutcome
       /\ Packet.HostAdapterStatus =
            IF LastAccess = ErrorFrameWrite(FALSE)
                 /\ Dma.IoErrorReply.IOCStatus = 67
            THEN "HOST_ADAPTER_SELECTION_TIMEOUT" ELSE "HOST_ADAPTER_OTHER"

C9_Witness ==
  /\ pc = "done"
  /\ Submitted
  /\ LastAccess = ErrorFrameWrite(FALSE)
  /\ Status = "EFI_DEVICE_ERROR"
  /\ Packet.HostAdapterStatus = "HOST_ADAPTER_SELECTION_TIMEOUT"
  /\ Packet.TargetStatus = "TARGET_TASK_ABORTED"

\* C10: when the write to the request queue register fails, the call
\* returns EFI_DEVICE_ERROR with both transfer lengths and SenseDataLength
\* 0, HOST_ADAPTER_OTHER and TARGET_GOOD, and accesses no other register.
C10_SubmitFailure ==
  (Len(regLog) >= 1 /\ regLog[1].reg = MPT_REG_REQ_Q /\ ~regLog[1].ok)
    => /\ pc = "done"
       /\ Status = "EFI_DEVICE_ERROR"
       /\ Packet.InTransferLength = 0
       /\ Packet.OutTransferLength = 0
       /\ Packet.SenseDataLength = 0
       /\ Packet.HostAdapterStatus = "HOST_ADAPTER_OTHER"
       /\ Packet.TargetStatus = "TARGET_GOOD"
       /\ Len(regLog) = 1

C10_Witness ==
  /\ pc = "done"
  /\ Len(regLog) = 1
  /\ regLog[1].reg = MPT_REG_REQ_Q
  /\ ~regLog[1].ok
  /\ Packet.TargetStatus = "TARGET_GOOD"
  /\ Packet.HostAdapterStatus = "HOST_ADAPTER_OTHER"
  /\ calls = 1

\* C11: a call that MptScsiPassThru rejects with EFI_UNSUPPORTED or
\* EFI_INVALID_PARAMETER returns without any register access and leaves the
\* packet, the request frame, the DMA sense area and the DMA data area as
\* they were; and every bidirectional, long-CDB or wrongly addressed request
\* is rejected so.
C11_RejectedNoEffect ==
  [][(CallStep /\ (\/ Status' \in {"EFI_UNSUPPORTED", "EFI_INVALID_PARAMETER"}
                   \/ Unsupported(Packet) \/ Target # 0 \/ Lun # 0))
       => /\ pc' = "done"
          /\ Status' \in {"EFI_UNSUPPORTED", "EFI_INVALID_PARAMETER"}
          /\ regLog' = <<>>
          /\ Packet' = Packet
          /\ Dma'.IoRequest = Dma.IoRequest
          /\ Dma'.Sense = Dma.Sense
          /\ Dma'.Data = Dma.Data]_vars

\* a second call is rejected after the first left its frame and data behind
C11_Witness ==
  /\ pc = "done"
  /\ calls = 2
  /\ Target # 0
  /\ Status = "EFI_INVALID_PARAMETER"
  /\ regLog = <<>>
  /\ Request.MessageContext = U32(1)
  /\ Request.CDB = CallerCdb
  /\ Dma.Data = CallerOut
  /\ Dma.Sense[0] = 90

\* the reads of the interrupt status register made by the current call
IstatusReads ==
  SelectSeq(regLog, LAMBDA e : e.op = "R" /\ e.reg = MPT_REG_ISTATUS)

\* every read of the interrupt status so far succeeded with bit 0x08 clear
AllClear ==
  \A i \in 1..Len(IstatusReads) :
     IstatusReads[i].ok /\ ~LowBitSet(IstatusReads[i].val, 8)

\* C12: once the request is submitted, the call has not returned as long as
\* every read of the interrupt status succeeded with bit 0x08 clear (it is
\* reading or stalling, whatever the number of polls); a failed read of the
\* interrupt status ends the call with EFI_DEVICE_ERROR; and a read with
\* bit 0x08 set ends the polling: it is the last read of that register.
C12_NoTimeout ==
  Submitted
    => /\ AllClear => pc \in {"poll", "stall"}
       /\ ~AllClear
            => /\ pc \in {"read1", "read2", "handle", "done"}
               /\ \A i \in 1..(Len(IstatusReads) - 1) :
                    /\ IstatusReads[i].ok
                    /\ ~LowBitSet(IstatusReads[i].val, 8)
       /\ (IstatusReads # <<>> /\ ~IstatusReads[Len(IstatusReads)].ok)
            => pc = "done" /\ Status = "EFI_DEVICE_ERROR"

\* the call is still polling after a read that found only the doorbell bit
C12_Witness ==
  /\ Submitted
  /\ pc = "poll"
  /\ ClearPolls(regLog) >= 1
  /\ \E i \in 1..Len(IstatusReads) : IstatusReads[i].val = U32(1)

\* C13: whenever MptScsiGetReply succeeded, whatever the reply token,
\* MptScsiHandleReply leaves SenseDataLength bytes of Dma->Sense in the
\* caller's sense buffer and, for a read, InTransferLength bytes of
\* Dma->Data in the caller's input buffer (lengths as on entry of
\* MptScsiHandleReply).
C13_CopyBack ==
  [][(pc = "handle" /\ pc' = "done")
       => /\ \A i \in SenseProbes :
               i < Packet.SenseDataLength
                 => Packet'.SenseData[i] = Dma.Sense[i]
          /\ Packet.DataDirection = "READ"
               => \A i \in DataProbes :
                    i < Packet.InTransferLength
                      => Packet'.InDataBuffer[i] = Dma.Data[i]]_vars

\* an unrecognised token ends in the fatal outcome with the buffers copied
C13_Witness ==
  /\ pc = "done"
  /\ GotReply
  /\ RepReads[1].val = U32(2)
  /\ Status = "EFI_DEVICE_ERROR"
  /\ Packet.DataDirection = "READ"
  /\ Packet.SenseData[SenseSize - 1] = 90
  /\ Packet.InDataBuffer[DataSize - 1] = 90

\* a register access of the last driver binding call failed
AccessFailed == \E i \in 1..Len(regLog) : ~regLog[i].ok

\* C14: a MptScsiControllerStart that fails leaves the controller's PCI
\* attributes as they were before it, and MptScsiControllerStop of an
\* attached controller leaves them as they were before the Start that
\* attached it (the value Start read into OriginalPciAttributes).
C14_AttributesRestored ==
  [][/\ (bindOp' = "MptScsiControllerStart" /\ Status' # "EFI_SUCCESS")
          => Attributes' = Attributes
     /\ (bindOp' = "MptScsiControllerStop" /\ "PassThru" \in Resources)
          => Attributes' = OriginalPciAttributes]_vars

\* C15: when a register access of MptScsiControllerStart or of
\* MptScsiControllerStop failed, the call returns an error status.
C15_ErrorsPropagate ==
  (bindOp \in {"MptScsiControllerStart", "MptScsiControllerStop"}
     /\ AccessFailed)
    => Status # "EFI_SUCCESS"

C17_PvScsiUnsupported ==
  [][bindOp' \in {"PvScsiDriverBindingStart", "PvScsiDriverBindingStop"}
       => /\ Status' = "EFI_UNSUPPORTED"
          /\ platformLog' = <<>>
          /\ regLog' = <<>>
          /\ UNCHANGED <<Pci, Attributes, OriginalPciAttributes, Resources,
                         Regs, posted, Dma, DmaPhysical>>]_vars

\* the PVSCSI controller, which Supported accepts, was refused by Start
C17_Witness ==
  /\ bindOp = "PvScsiDriverBindingStart"
  /\ Status = "EFI_UNSUPPORTED"
  /\ Pci = [VendorId |-> 5549, DeviceId |-> 1984]
  /\ PvScsiDriverBindingSupported(Pci, TRUE, TRUE) = "EFI_SUCCESS"
  /\ Resources = {}

AllFF(target) == \A i \in 0..15 : target[i] = 255

\* C18: an enumeration call made with a target of sixteen 0xFF bytes
\* returns EFI_SUCCESS with the target all zero (and LUN 0 from
\* MptScsiGetNextTargetLun); made with any other target it returns
\* EFI_NOT_FOUND and leaves target and LUN as they were; so an iteration
\* never yields more than one pair.
C18_SingleTarget ==
  [][bindOp' \in {"MptScsiGetNextTargetLun", "MptScsiGetNextTarget"}
       => /\ IF AllFF(TargetBytes)
             THEN /\ Status' = "EFI_SUCCESS"
                  /\ \A i \in 0..15 : TargetBytes'[i] = 0
                  /\ bindOp' = "MptScsiGetNextTargetLun" => Lun' = 0
             ELSE /\ Status' = "EFI_NOT_FOUND"
                  /\ TargetBytes' = TargetBytes
                  /\ Lun' = Lun
          /\ Len(Enumerated') <= 1]_vars

\* the iteration found target 0, LUN 0 and then ended
C18_Witness ==
  /\ bindOp = "MptScsiGetNextTargetLun"
  /\ Status = "EFI_NOT_FOUND"
  /\ Enumerated = <<[Target |-> ZeroTarget, Lun |-> 0]>>
  /\ TargetBytes = ZeroTarget
  /\ Lun = 0

\* C19: between MptScsiPassThru calls (after MptScsiInit and after every
\* call that returned) exactly one error-reply frame is posted and
\* available to the device.
C19_OneErrorFrame == pc \in {"idle", "done"} => posted = 1

\* C20: from every register state, whatever the device shows after each
\* doorbell reset, a MptScsiReset whose writes succeed leaves the interrupt
\* mask at 0x09 and the interrupt status at 0, and a second one run on that
\* state leaves the same; so does the MptScsiReset of MptScsiControllerStop,
\* which runs after the one of MptScsiInit.
C20_ResetIdempotent ==
  /\ \A a1 \in DeviceResetStates, a2 \in DeviceResetStates :
       LET once == MptScsiReset(Regs, a1, 0)
           twice == MptScsiReset(once.Regs, a2, 0)
       IN  /\ once.Status = "EFI_SUCCESS"
           /\ twice.Status = "EFI_SUCCESS"
           /\ once.Regs = [IMASK |-> U32(9), ISTATUS |-> U32(0)]
           /\ twice.Regs = once.Regs
  /\ (bindOp = "MptScsiControllerStop" /\ regLog # <<>> /\ ~AccessFailed)
       => Regs = [IMASK |-> U32(9), ISTATUS |-> U32(0)]

\* MptScsiControllerStop has reset the device that MptScsiInit had reset
C20_Witness ==
  /\ bindOp = "MptScsiControllerStop"
  /\ regLog = ResetAccesses
  /\ Regs = [IMASK |-> U32(9), ISTATUS |-> U32(0)]
  /\ posted = 0

---------------------------------------------------------------------------
\* a read of the interrupt status register that found the reply bit
RaisedRead(e) ==
  /\ e.op = "R"
  /\ e.reg = MPT_REG_ISTATUS
  /\ e.ok
  /\ LowBitSet(e.val, MPT_IMASK_REPLY)

\* a read of the interrupt status register that found the reply bit clear
ClearRead(e) ==
  /\ e.op = "R"
  /\ e.reg = MPT_REG_ISTATUS
  /\ e.ok
  /\ ~LowBitSet(e.val, MPT_IMASK_REPLY)

UnexpectedToken(token) == token # Request.MessageContext /\ ~Bit31(token)

\* C22: when both reads of the reply queue succeeded, the second found it
\* empty and the token is neither the request's MessageContext nor has bit
\* 31 set, the call returns EFI_DEVICE_ERROR with HOST_ADAPTER_OTHER,
\* TASK_ABORTED and the three lengths 0, and after the submission it has
\* only read registers: MptScsiHandleReply wrote none.
C22_UnexpectedToken ==
  (/\ pc = "done"
   /\ Submitted
   /\ GotReply
   /\ UnexpectedToken(RepReads[1].val))
    => /\ FatalOutcome
       /\ Packet.HostAdapterStatus = "HOST_ADAPTER_OTHER"
       /\ \A i \in 2..Len(regLog) : regLog[i].op = "R"
       /\ LastAccess = RegRead(MPT_REG_REP_Q, MAX_UINT32, TRUE)

\* a call answered with the token 2 has returned
C22_Witness ==
  /\ pc = "done"
  /\ Submitted
  /\ GotReply
  /\ RepReads[1].val = U32(2)
  /\ Request.MessageContext = U32(1)
  /\ Status = "EFI_DEVICE_ERROR"

\* the register operations of MptScsiInit in the order the claim gives
\* them: operation and register of the 17 accesses
InitOrder ==
  << <<"W", 0>>, <<"W", 52>>, <<"W", 48>>, <<"W", 0>>, <<"WF", 0>> >>
  \o [i \in 1..10 |-> <<"R", 0>>]
  \o << <<"W", 48>>, <<"W", 68>> >>

\* C23: the register accesses of MptScsiInit are a prefix of: doorbell
\* reset, interrupt mask 0x09, interrupt status 0, doorbell handshake with
\* the word count 8, FIFO write of 8 words to the doorbell, 10 reads of the
\* doorbell, interrupt status 0, write of the error-reply frame's address
\* to the reply queue; every access but the last succeeded; the sequence is
\* cut short exactly when its last access failed, and then
\* MptScsiControllerStart returns an error and holds nothing; the reply
\* queue register is written only as the 17th access.
C23_InitOrder ==
  (bindOp = "MptScsiControllerStart" /\ regLog # <<>>)
    => /\ Len(regLog) <= Len(InitOrder)
       /\ \A i \in 1..Len(regLog) :
            /\ <<regLog[i].op, regLog[i].reg>> = InitOrder[i]
            /\ i < Len(regLog) => regLog[i].ok
            /\ regLog[i].reg = MPT_REG_REP_Q => i = 17
       /\ Len(regLog) < Len(InitOrder) => ~LastAccess.ok
       /\ ~LastAccess.ok => Status = "EFI_DEVICE_ERROR" /\ Resources = {}
       /\ Len(regLog) >= 1 => regLog[1].val = <<16384, 0>>
       /\ Len(regLog) >= 2 => regLog[2].val = U32(9)
       /\ Len(regLog) >= 3 => regLog[3].val = U32(0)
       /\ Len(regLog) >= 4 => regLog[4].val = <<16904, 0>>
       /\ Len(regLog) >= 5 => Len(regLog[5].val) = 8
       /\ Len(regLog) >= 16 => regLog[16].val = U32(0)
       /\ Len(regLog) = 17
            => regLog[17].val = Truncate32(AddOffset(DmaPhysical, 0))

\* MptScsiInit stopped at a failed read of the doorbell, after the FIFO write
C23_Witness ==
  /\ bindOp = "MptScsiControllerStart"
  /\ Len(regLog) = 9
  /\ ~LastAccess.ok
  /\ LastAccess.op = "R"
  /\ Status = "EFI_DEVICE_ERROR"

\* C24: whenever MptScsiInit has written the address of the error-reply
\* frame to the reply queue register, Dma->IoErrorReply is all zero,
\* whatever the allocated DMA buffer held.
C24_FrameZeroed ==
  (/\ bindOp = "MptScsiControllerStart"
   /\ regLog # <<>>
   /\ LastAccess = ErrorFrameWrite(TRUE))
    => Dma.IoErrorReply = FillErrorReply(0)

\* C25: the request frame a successful MptScsiPopulateRequest leaves is the
\* one it builds from the same packet and DMA base over any other content
\* of the DMA buffer (all 0x00, all 0xFF): nothing of what the frame held
\* before the call is left in it, and the fields the function does not
\* assign are 0.
C25_NoStaleFields ==
  [][(CallStep /\ Status' = "EFI_SUCCESS")
       => /\ \A b \in FillBytes :
               Request' = MptScsiPopulateRequest(FillDma(b), DmaPhysical,
                            Target, Lun, Packet).Dma.IoRequest
          /\ Request'.Bus = 0
          /\ Request'.ChainOffset = 0
          /\ Request'.Reserved = 0
          /\ Request'.MessageFlags = 0
          /\ Request'.Sg.Is64BitAddress = 0
          /\ Request'.Sg.LocalAddress = 0
          /\ Request.Sg.BufferContainsData = 1
               /\ ~(Packet.DataDirection = "WRITE"
                    /\ Packet.OutTransferLength > 0)
               => Request'.Sg.BufferContainsData = 0
    ]_vars

\* a write request was populated, failed, and the caller's retry with the
\* zeroed length is populated over it
C25_Witness ==
  /\ calls = 2
  /\ pc = "send"
  /\ Packet.DataDirection = "WRITE"
  /\ Packet.OutTransferLength = 0
  /\ Packet.TargetStatus = "TARGET_TASK_ABORTED"
  /\ Dma.Data[0] = CallerOut[0]
  /\ Request.DataLength = U32(0)
  /\ Request.Sg.BufferContainsData = 0

\* C26: in the request frame of a successful MptScsiPopulateRequest, Control
\* is TXDIR_READ exactly for a read with InTransferLength > 0, TXDIR_WRITE
\* exactly for a write with OutTransferLength > 0 and TXDIR_NONE otherwise,
\* with DataLength and the element's Length 0; EndOfList, EndOfBuffer and
\* LastElement are 1; BufferContainsData is 1 exactly for a write with
\* OutTransferLength > 0.
C26_DirectionEncoding ==
  [][(CallStep /\ Status' = "EFI_SUCCESS")
       => LET p == Packet'
              r == Request'
              reads == p.DataDirection = "READ" /\ p.InTransferLength > 0
              writes == p.DataDirection = "WRITE" /\ p.OutTransferLength > 0
          IN  /\ r.Control = <<512, 0>> <=> reads
              /\ r.Control = <<256, 0>> <=> writes
              /\ r.Control = <<0, 0>> <=> ~reads /\ ~writes
              /\ r.Control \in {<<0, 0>>, <<256, 0>>, <<512, 0>>}
              /\ r.Control = <<0, 0>>
                   => r.DataLength = U32(0) /\ r.Sg.Length = 0
              /\ r.Sg.EndOfList = 1
              /\ r.Sg.EndOfBuffer = 1
              /\ r.Sg.LastElement = 1
              /\ r.Sg.BufferContainsData = 1 <=> writes
              /\ r.Sg.BufferContainsData \in {0, 1}
    ]_vars

\* a read of length 0 was populated over a buffer of 0xFF bytes
C26_Witness ==
  /\ calls = 1
  /\ pc = "send"
  /\ Packet.DataDirection = "READ"
  /\ Packet.InTransferLength = 0
  /\ Packet.OutTransferLength > 0
  /\ Dma.Data[0] = 255
  /\ Request.Control = <<0, 0>>
  /\ Request.Sg.LastElement = 1

C28_ValidationOrder ==
  [][CallStep
       => LET p == Packet
              first == IF p.DataDirection = "BIDIRECTIONAL" \/ p.CdbLength > 16
                       THEN 1
                       ELSE IF Target # 0 \/ Lun # 0 THEN 2
                       ELSE IF p.InTransferLength > 8192 THEN 3
                       ELSE IF p.OutTransferLength > 8192 THEN 4
                       ELSE 0
          IN  /\ first = 1 => Status' = "EFI_UNSUPPORTED" /\ Packet' = p
              /\ first = 2 => Status' = "EFI_INVALID_PARAMETER" /\ Packet' = p
              /\ first = 3
                   => /\ Status' = "EFI_BAD_BUFFER_SIZE"
                      /\ Packet' = [p EXCEPT !.InTransferLength = 8192]
              /\ first = 4
                   => /\ Status' = "EFI_BAD_BUFFER_SIZE"
                      /\ Packet' = [p EXCEPT !.OutTransferLength = 8192]
              /\ first = 0 => Status' = "EFI_SUCCESS" /\ Packet' = p
              /\ first # 0 => pc' = "done" /\ Dma' = Dma
    ]_vars

\* a call breaking the first three rules at once was answered with the
\* status of the first, its oversize lengths left as they were
C28_Witness ==
  /\ calls >= 1
  /\ pc = "done"
  /\ regLog = <<>>
  /\ Status = "EFI_UNSUPPORTED"
  /\ Packet.CdbLength > CdbSize
  /\ <<Target, Lun>> # <<0, 0>>
  /\ Packet.InTransferLength > DataSize
  /\ Packet.OutTransferLength > DataSize

\* the position of a service in the calls of the last driver binding
\* operation, 0 if it was not called
CallIndex(svc) ==
  IF \E i \in 1..Len(platformLog) : platformLog[i].svc = svc
  THEN CHOOSE i \in 1..Len(platformLog) : platformLog[i].svc = svc
  ELSE 0

\* the number of calls of a service in the last driver binding operation
CallCount(svc) ==
  Cardinality({i \in 1..Len(platformLog) : platformLog[i].svc = svc})

Succeeded(svc) ==
  \E i \in 1..Len(platformLog) : platformLog[i].svc = svc /\ platformLog[i].ok

\* what MptScsiControllerStart acquires and the call that releases it, in
\* the order of acquisition
Acquisitions ==
  << <<"AllocateZeroPool", "FreePool">>,
     <<"OpenProtocol", "CloseProtocol">>,
     <<"AttributesEnable", "RestoreAttributes">>,
     <<"AllocateBuffer", "FreeBuffer">>,
     <<"Map", "Unmap">> >>

\* C30: when MptScsiControllerStart fails, whatever the step that failed
\* (a service, the short mapping, a register access of MptScsiInit), it
\* returns an error status and holds nothing; the release call of an
\* acquisition was made once if the acquisition succeeded and not at all if
\* it did not; the release calls come after every acquisition call and in
\* the reverse order of the acquisitions; nothing is called after a step
\* that failed but release calls.
C30_AttachCleanup ==
  (bindOp = "MptScsiControllerStart" /\ "PassThru" \notin Resources)
    => /\ Status # "EFI_SUCCESS"
       /\ Resources = {}
       /\ \A a \in 1..Len(Acquisitions) :
            /\ CallCount(Acquisitions[a][2]) =
                 (IF Succeeded(Acquisitions[a][1]) THEN 1 ELSE 0)
            /\ CallCount(Acquisitions[a][1]) <= 1
            /\ \A b \in 1..Len(Acquisitions) :
                 CallIndex(Acquisitions[a][2]) # 0
                   => CallIndex(Acquisitions[b][1])
                        < CallIndex(Acquisitions[a][2])
            /\ \A b \in (a + 1)..Len(Acquisitions) :
                 (/\ CallIndex(Acquisitions[a][2]) # 0
                  /\ CallIndex(Acquisitions[b][2]) # 0)
                   => CallIndex(Acquisitions[b][2])
                        < CallIndex(Acquisitions[a][2])
       /\ \A i \in 1..Len(platformLog) :
            ~platformLog[i].ok
              => \A j \in (i + 1)..Len(platformLog) :
                   \E a \in 1..Len(Acquisitions) :
                      platformLog[j].svc = Acquisitions[a][2]
       /\ CallCount("UninstallProtocolInterface") = 0
       /\ (\A i \in 1..Len(platformLog) : platformLog[i].ok)
            => Status = "EFI_OUT_OF_RESOURCES" /\ Succeeded("Map")

\* MptScsiInit completed, InstallProtocolInterface failed, and the five
\* release calls were made
C30_Witness ==
  /\ bindOp = "MptScsiControllerStart"
  /\ Status = "EFI_OUT_OF_RESOURCES"
  /\ Len(regLog) = InitAccesses
  /\ CallIndex("InstallProtocolInterface") # 0
  /\ ~Succeeded("InstallProtocolInterface")
  /\ CallIndex("Unmap") # 0
  /\ CallIndex("FreePool") = Len(platformLog)
  /\ Resources = {}

\* a 32-bit register or field value as the 64-bit address the device uses
Widen(w) == <<0, 0, w[1], w[2]>>

\* C31: whatever the device address of the DMA buffer, every value written
\* to the request queue register is DmaPhysical plus the offset of
\* IoRequest, every value written to the reply queue register is
\* DmaPhysical plus the offset of IoErrorReply, and the
\* SenseBufferLowAddress of a populated request is DmaPhysical plus the
\* offset of Sense, as 64-bit addresses.
C31_ExactAddresses ==
  /\ \A i \in 1..Len(regLog) :
       /\ (regLog[i].op = "W" /\ regLog[i].reg = MPT_REG_REQ_Q)
            => Widen(regLog[i].val) = AddOffset(DmaPhysical, OffsetIoRequest)
       /\ (regLog[i].op = "W" /\ regLog[i].reg = MPT_REG_REP_Q)
            => Widen(regLog[i].val) = AddOffset(DmaPhysical, OffsetIoErrorReply)
  /\ pc \in {"send", "poll", "stall", "read1", "read2", "handle"}
       => Widen(Request.SenseBufferLowAddress)
            = AddOffset(DmaPhysical, OffsetSense)

\* C32: no step of a call that has not failed changes the packet's
\* InTransferLength, OutTransferLength, SenseDataLength, DataDirection,
\* CdbLength or CDB; so when MptScsiPassThru returns EFI_SUCCESS, for the
\* expected reply or for an error frame, they are the caller's, whatever
\* TransferCount and SenseCount the error reply holds.
C32_SuccessFrame ==
  [][Status' = "EFI_SUCCESS"
       => /\ Packet'.InTransferLength = Packet.InTransferLength
          /\ Packet'.OutTransferLength = Packet.OutTransferLength
          /\ Packet'.SenseDataLength = Packet.SenseDataLength
          /\ Packet'.DataDirection = Packet.DataDirection
          /\ Packet'.CdbLength = Packet.CdbLength
          /\ Packet'.Cdb = Packet.Cdb
          /\ Packet'.OutDataBuffer = Packet.OutDataBuffer
    ]_vars

\* a read with sense data was answered with an error frame whose counts are
\* 0 and returned EFI_SUCCESS with its lengths as the caller gave them
C32_Witness ==
  /\ pc = "done"
  /\ Status = "EFI_SUCCESS"
  /\ GotReply
  /\ RepReads[1].val = ErrorFrameToken(DmaPhysical)
  /\ LastAccess = ErrorFrameWrite(TRUE)
  /\ Dma.IoErrorReply.TransferCount = U32(0)
  /\ Dma.IoErrorReply.SenseCount = U32(0)
  /\ Packet.DataDirection = "READ"
  /\ Packet.InTransferLength = DataSize
  /\ Packet.SenseDataLength = SenseSize

====
